---- MODULE Spec2Model ----
(***************************************************************************)
(* Path: the generic tree cursor of ast-types (lib/path.ts, carried at the *)
(* end of src/lib/path-visitor.ts).  The tree is a heap of JavaScript      *)
(* arrays and plain objects; a Path object holds value, parentPath, name   *)
(* and a lazily created child cache.                                       *)
(*                                                                         *)
(* Encoding.  Every JavaScript value is an integer: Undef is undefined,    *)
(* the integers 1..9 are primitives, and an integer above ObjBase is a     *)
(* reference to the heap object of that id.  Property keys are integers as *)
(* well: an array index is itself (a negative integer is an ordinary       *)
(* property of the array, as in JavaScript), KeyA and KeyB are the field   *)
(* names "a" and "b".  Path objects are numbered 1..Len(paths) in the      *)
(* order of their construction; Null is the null parentPath and name.      *)
(*                                                                         *)
(* NodePath (src/lib/node-path.ts) adds the cached views node, parent and  *)
(* scope to a Path, and PathVisitor (src/lib/path-visitor.ts) visits a     *)
(* tree of nodes through NodePaths.  A node is a record with a field       *)
(* "type"; type names are integers.  The three systems, Spec for Path,     *)
(* VisitorSpec for PathVisitor and NodeSpec for NodePath, share the        *)
(* variables, and each leaves alone the ones it has no use for.            *)
(***************************************************************************)
EXTENDS Integers, Sequences, FiniteSets, TLC

VARIABLES heap, paths, last, got, iter, nmut, nget,
          visitors, contexts, log, views, nvis

vars == <<heap, paths, last, got, iter, nmut, nget,
          visitors, contexts, log, views, nvis>>

\* The state of the visitors and of the NodePath views, which the calls of
\* Path alone leave as they are.
visitorVars == <<visitors, contexts, log, views, nvis>>

\* The bookkeeping of the calls of Path.
pathVars == <<got, iter, nmut, nget>>

\* ---------------------------------------------------------------- bounds
MaxLen == 2        \* longest initial array
MaxPaths == 5      \* Path objects constructed in one run
MaxMuts == 2       \* mutating calls in one run
MaxEach == 1       \* calls of each in one run
MaxArgs == 2       \* values passed to one call
MaxGets == 2       \* calls of get that construct a Path in one run

\* -------------------------------------------------------------- encoding
Undef == 0
Null == -99
ObjBase == 100
KeyA == 11
KeyB == 12

IsObj(v) == v > ObjBase

\* The values a caller passes in alone: undefined, a primitive that occurs
\* nowhere in the initial tree, and a record that is not part of the tree.
Spare == ObjBase + 3
InVals == {Undef, 9, Spare}

\* ------------------------------------------------------ JavaScript values
Restrict(f, S) == [k \in S |-> f[k]]

IsArrayObj(h, v) == IsObj(v) /\ h[v].kind = "array"

HasOwn(h, v, k) == IsObj(v) /\ k \in DOMAIN h[v].props

\* value[name] for an object value (getValueProperty, path-visitor.ts:576)
GetProp(h, v, k) == IF HasOwn(h, v, k) THEN h[v].props[k] ELSE Undef

\* value[k] = x
PutProp(h, v, k, x) ==
    LET o == h[v]
        np == (k :> x) @@ o.props
        nl == IF o.kind = "array" /\ k >= o.length THEN k + 1 ELSE o.length
    IN  [h EXCEPT ![v] = [o EXCEPT !.props = np, !.length = nl]]

\* delete value[k]
DelProp(h, v, k) ==
    [h EXCEPT ![v].props = Restrict(@, DOMAIN @ \ {k})]

\* The own properties of an array that are not indices below its length.
NonIndex(o) == {k \in DOMAIN o.props : k < 0 \/ k >= o.length}

\* Array.prototype.splice(start, deleteCount, ...items), on the heap.
SpliceStart(o, start) ==
    IF start < 0 THEN (IF o.length + start < 0 THEN 0 ELSE o.length + start)
    ELSE (IF start > o.length THEN o.length ELSE start)

SpliceCount(o, start, dc) ==
    LET s == SpliceStart(o, start)
        d == IF dc < 0 THEN 0 ELSE dc
    IN  IF d > o.length - s THEN o.length - s ELSE d

SplicedOut0(o, start, dc) ==
    LET s == SpliceStart(o, start)
    IN  IF SpliceCount(o, start, dc) > 0 /\ s \in DOMAIN o.props
        THEN o.props[s] ELSE Undef

ArraySplice(h, v, start, dc, items) ==
    LET o == h[v]
        s == SpliceStart(o, start)
        d == SpliceCount(o, start, dc)
        n == Len(items)
        nl == o.length - d + n
        src(i) == IF i < s THEN i ELSE i - n + d
        keep == {i \in 0..(nl - 1) :
                    (i >= s /\ i < s + n) \/ src(i) \in DOMAIN o.props}
        np == [i \in keep \cup NonIndex(o) |->
                 IF i \in NonIndex(o) /\ ~(i \in 0..(nl - 1)) THEN o.props[i]
                 ELSE IF i >= s /\ i < s + n THEN items[i - s + 1]
                 ELSE o.props[src(i)]]
    IN  [h EXCEPT ![v] = [o EXCEPT !.props = np, !.length = nl]]


\* Array.prototype.shift(): the elements above index 0 move down one place,
\* holes included; the result is the former first element.
ArrayShift(h, v) ==
    LET o == h[v]
        nl == o.length - 1
        keep == {i \in 0..(nl - 1) : (i + 1) \in DOMAIN o.props}
        np == [i \in keep \cup NonIndex(o) |->
                 IF i \in keep THEN o.props[i + 1] ELSE o.props[i]]
    IN  IF o.length = 0 THEN h
        ELSE [h EXCEPT ![v] = [o EXCEPT !.props = np, !.length = nl]]

\* Array.prototype.unshift(...items)
ArrayUnshift(h, v, items) ==
    LET o == h[v]
        n == Len(items)
        nl == o.length + n
        keep == {i \in 0..(nl - 1) : i < n \/ (i - n) \in DOMAIN o.props}
        np == [i \in keep \cup NonIndex(o) |->
                 IF i \in keep
                 THEN (IF i < n THEN items[i + 1] ELSE o.props[i - n])
                 ELSE o.props[i]]
    IN  [h EXCEPT ![v] = [o EXCEPT !.props = np, !.length = nl]]

\* Array.prototype.push(...items)
ArrayPush(h, v, items) ==
    LET o == h[v]
        n == Len(items)
        np == [i \in DOMAIN o.props \cup (o.length..(o.length + n - 1)) |->
                 IF i >= o.length /\ i < o.length + n
                 THEN items[i - o.length + 1] ELSE o.props[i]]
    IN  [h EXCEPT ![v] = [o EXCEPT !.props = np, !.length = o.length + n]]

\* Array.prototype.pop()
ArrayPop(h, v) ==
    LET o == h[v]
        nl == o.length - 1
    IN  IF o.length = 0 THEN h
        ELSE [h EXCEPT ![v] = [o EXCEPT !.props = Restrict(@, DOMAIN @ \ {nl}),
                                        !.length = nl]]

\* Array.prototype.indexOf(x): the first present index holding x, or -1.
ArrayIndexOf(h, v, x) ==
    LET o == h[v]
        hits == {i \in 0..(o.length - 1) : i \in DOMAIN o.props /\ o.props[i] = x}
    IN  IF hits = {} THEN -1
        ELSE CHOOSE i \in hits : \A j \in hits : i <= j

\* The elements of an array as a sequence (Undef for a hole).
ArrayElems(h, v) == [i \in 1..h[v].length |-> GetProp(h, v, i - 1)]

\* ------------------------------------------------------------ the type system
\* The schema collaborator (lib/types.ts) as the visitor and NodePath use it.
\* A node is a record whose field "type" (KeyType) holds a type name; the type
\* names are integers as every value is.  KeyRoot is the field "root" of the
\* record visit wraps a bare root value in.
KeyType == 13
KeyRoot == 14

TNode == 21
TExpression == 22
TIdentifier == 23
TBinary == 24
TStatement == 25

\* The types of syntax that NodePath names.
TUnaryExpression == 31
TSpreadElement == 32
TSpreadProperty == 33
TMemberExpression == 34
TBinaryExpression == 35
TLogicalExpression == 36
TCallExpression == 37
TSequenceExpression == 38
TForStatement == 39
TExpressionStatement == 40
TYieldExpression == 41
TNewExpression == 42
TConditionalExpression == 43
TLiteral == 44
TAssignmentExpression == 45
TFunctionExpression == 46
TObjectExpression == 47
TBlockStatement == 48
TVariableDeclaration == 49
TIfStatement == 50
TVariableDeclarator == 51

\* The fields of those types.
KeyObject == 61
KeyCallee == 62
KeyOperator == 63
KeyRight == 64
KeyExpression == 65
KeyValue == 66
KeyTest == 67
KeyBody == 68
KeyExpressions == 69
KeyLeft == 70
KeyPrefix == 71
KeyArgument == 72
KeyDeclarations == 73
KeyAlternate == 74
KeyConsequent == 75
KeyArguments == 76
KeyProperty == 77
KeyId == 78

\* true and false, as values
True == -97
False == -98

Bool(b) == IF b THEN True ELSE False

\* !value
Falsy(v) == v \in {Undef, Null, False}

ExpressionTypes ==
    {TIdentifier, TBinary, TUnaryExpression, TSpreadElement, TSpreadProperty,
     TMemberExpression, TBinaryExpression, TLogicalExpression, TCallExpression,
     TSequenceExpression, TYieldExpression, TNewExpression,
     TConditionalExpression, TLiteral, TAssignmentExpression,
     TFunctionExpression, TObjectExpression}

StatementTypes ==
    {TForStatement, TExpressionStatement, TBlockStatement, TVariableDeclaration,
     TIfStatement}

TypeNames ==
    {TNode, TExpression, TStatement, TVariableDeclarator}
    \cup ExpressionTypes \cup StatementTypes

\* The supertypes of a type, itself first, the nearest next.
Supertypes(t) ==
    IF t \in ExpressionTypes THEN <<t, TExpression, TNode>>
    ELSE IF t \in StatementTypes THEN <<t, TStatement, TNode>>
    ELSE IF t = TExpression THEN <<TExpression, TNode>>
    ELSE IF t = TStatement THEN <<TStatement, TNode>>
    ELSE IF t = TNode THEN <<TNode>>
    ELSE <<t, TNode>>

\* n.Node.check(value)
IsNode(h, v) ==
    /\ IsObj(v)
    /\ h[v].kind = "object"
    /\ KeyType \in DOMAIN h[v].props
    /\ h[v].props[KeyType] \in TypeNames

\* n.T.check(value), for the type name T: the value is a node whose type is
\* T or descends from it; the fields of the node are not looked at.
Check(h, v, T) ==
    /\ IsNode(h, v)
    /\ \E i \in DOMAIN Supertypes(h[v].props[KeyType]) :
          Supertypes(h[v].props[KeyType])[i] = T

\* The keys of a record in the order Object.keys lists them.
RECURSIVE KeySeq(_)
KeySeq(Ks) ==
    IF Ks = {} THEN <<>>
    ELSE LET m == CHOOSE k \in Ks : \A j \in Ks : k <= j
         IN  <<m>> \o KeySeq(Ks \ {m})

\* The declared child fields of a type.
FieldsOf(t) ==
    IF t = TBinary THEN <<KeyA, KeyB>>
    ELSE IF t \in {TBinaryExpression, TLogicalExpression, TAssignmentExpression}
    THEN <<KeyOperator, KeyLeft, KeyRight>>
    ELSE IF t = TUnaryExpression THEN <<KeyOperator, KeyArgument, KeyPrefix>>
    ELSE IF t \in {TSpreadElement, TSpreadProperty, TYieldExpression}
    THEN <<KeyArgument>>
    ELSE IF t = TMemberExpression THEN <<KeyObject, KeyProperty>>
    ELSE IF t \in {TCallExpression, TNewExpression} THEN <<KeyCallee, KeyArguments>>
    ELSE IF t = TSequenceExpression THEN <<KeyExpressions>>
    ELSE IF t = TConditionalExpression \/ t = TIfStatement
    THEN <<KeyTest, KeyConsequent, KeyAlternate>>
    ELSE IF t = TLiteral THEN <<KeyValue>>
    ELSE IF t \in {TFunctionExpression, TBlockStatement, TForStatement}
    THEN <<KeyBody>>
    ELSE IF t = TObjectExpression THEN <<>>
    ELSE IF t = TExpressionStatement THEN <<KeyExpression>>
    ELSE IF t = TVariableDeclaration THEN <<KeyDeclarations>>
    ELSE IF t = TVariableDeclarator THEN <<KeyId>>
    ELSE <<KeyA>>

\* The declared fields of a type that have the default null.
NullDefaults(t) ==
    IF t = TIfStatement THEN {KeyAlternate}
    ELSE IF t = TYieldExpression THEN {KeyArgument}
    ELSE IF t \in {TNode, TExpression, TIdentifier, TBinary, TStatement}
    THEN {KeyA, KeyB}
    ELSE {}

\* types.getFieldNames(value): the declared child fields of a node's type, the
\* own keys of any other record.
getFieldNames(h, v) ==
    IF ~IsNode(h, v) THEN KeySeq(DOMAIN h[v].props)
    ELSE FieldsOf(h[v].props[KeyType])

\* types.getFieldValue(value, name): the own field, or the default of a
\* declared field that is absent (null), or undefined.
getFieldValue(h, v, name) ==
    IF HasOwn(h, v, name) THEN h[v].props[name]
    ELSE IF IsNode(h, v) /\ name \in NullDefaults(h[v].props[KeyType]) THEN Null
    ELSE Undef

\* types.computeSupertypeLookupTable(typeNames): every type that is or
\* descends from a name in typeNames, with the nearest such name.
computeSupertypeLookupTable(typeNames) ==
    LET covered == {t \in TypeNames :
                       \E i \in DOMAIN Supertypes(t) : Supertypes(t)[i] \in typeNames}
        nearest(t) == CHOOSE i \in DOMAIN Supertypes(t) :
                         /\ Supertypes(t)[i] \in typeNames
                         /\ \A j \in 1..(i - 1) : Supertypes(t)[j] \notin typeNames
    IN  [t \in covered |-> Supertypes(t)[nearest(t)]]

\* computeMethodNameTable with the supertype table left out: a method is
\* found for the type it is declared for only.
computeMethodNameTable_Exact(declared) == [t \in declared |-> t]

\* computeMethodNameTable(visitor) for a visitor whose methods visitT are
\* functions for the type names T in declared: the method of a type is named
\* by the type it is declared for.
computeMethodNameTable(declared) == computeSupertypeLookupTable(declared)

\* The operators of expressions, as the values of the field "operator".
OperatorNames ==
    <<"||", "&&", "|", "^", "&", "==", "===", "!=", "!==", "<", ">", "<=", ">=",
      "in", "instanceof", ">>", "<<", ">>>", "+", "-", "*", "/", "%", "**", "!",
      "=", "++">>

Op(name) == 30 + CHOOSE i \in DOMAIN OperatorNames : OperatorNames[i] = name

\* b.expressionStatement(expression)
expressionStatement(expression) ==
    [kind |-> "object", length |-> 0,
     props |-> (KeyType :> TExpressionStatement) @@ (KeyExpression :> expression)]

\* b.unaryExpression(operator, argument, prefix)
unaryExpression(operator, argument, prefix) ==
    [kind |-> "object", length |-> 0,
     props |-> (KeyType :> TUnaryExpression) @@ (KeyOperator :> operator)
               @@ (KeyArgument :> argument) @@ (KeyPrefix :> prefix)]


\* ------------------------------------------------------------ Path objects
\* A machine state threaded through the body of one call: the heap, the
\* Path objects, whether an exception is propagating, and the value produced
\* by the last step.
EmptyMap == [k \in {} |-> 0]

St(h, ps) == [heap |-> h, paths |-> ps, err |-> FALSE, ret |-> <<>>]

Throw(S) == [S EXCEPT !.err = TRUE, !.ret = <<>>]

\* new Path(value, parentPath, name)   (constructor)
NewPath(value, parentPath, name) ==
    [value |-> value, parentPath |-> parentPath, name |-> name,
     childCache |-> EmptyMap]

\* getChildCache(path): the cache is created lazily, so a null cache and an
\* empty one are the same thing to every reader; the model keeps one form.
getChildCache(S, p) == S.paths[p].childCache


\* path.getValueProperty(name) is path.value[name]: reading a property of
\* undefined throws, a primitive has none of the modelled properties.
\* A state that carries views is one of NodePaths, which override
\* getValueProperty by types.getFieldValue(this.value, name); that one reads
\* no property of undefined.
IsNodePath(S) == "views" \in DOMAIN S

CanRead(S, p) == IsNodePath(S) \/ S.paths[p].value # Undef

getValueProperty(S, p, name) ==
    IF IsNodePath(S) THEN getFieldValue(S.heap, S.paths[p].value, name)
    ELSE GetProp(S.heap, S.paths[p].value, name)

\* Whether getChildPath(path, name) answers from the cache.
CacheHit(S, p, name) ==
    /\ name \in DOMAIN S.paths[p].childCache
    /\ S.paths[S.paths[p].childCache[name]].value = getValueProperty(S, p, name)

\* getChildPath without its cache: a Path is constructed on every call.
getChildPath_Fresh(S, p, name) ==
    IF ~CanRead(S, p) THEN Throw(S)
    ELSE LET c == Len(S.paths) + 1
             np == NewPath(getValueProperty(S, p, name), p, name)
             ps == Append(S.paths, np)
         IN  [S EXCEPT !.paths = [ps EXCEPT ![p].childCache = (name :> c) @@ @],
                       !.ret = <<c>>]

\* getChildPath(path, name): ret is <<childPath>>.
getChildPath(S, p, name) ==
    IF ~CanRead(S, p) THEN Throw(S)
    ELSE IF CacheHit(S, p, name)
    THEN [S EXCEPT !.ret = <<S.paths[p].childCache[name]>>]
    ELSE LET c == Len(S.paths) + 1
             np == NewPath(getValueProperty(S, p, name), p, name)
             ps == Append(S.paths, np)
         IN  [S EXCEPT !.paths = [ps EXCEPT ![p].childCache = (name :> c) @@ @],
                       !.ret = <<c>>]

\* get(...names): one getChildPath per name; ret is <<path>>.
RECURSIVE get(_, _, _)
\* The rest of get's loop once getChildPath ended in state G.
getRest(G, names) ==
    IF G.err THEN G ELSE get(G, G.ret[1], Tail(names))

get(S, p, names) ==
    IF names = <<>> THEN [S EXCEPT !.ret = <<p>>]
    ELSE getRest(getChildPath(S, p, Head(names)), names)

\* var newIndex = i + offset, with the offset forgotten.
newIndex_NoOffset(i, offset) == i

\* var newIndex = i + offset
newIndex(i, offset) == i + offset

RECURSIVE getMovesLoop(_, _, _, _, _, _)
\* One round of the loop of getMoves, once path.get(i) ended in state G: the
\* child path is renamed to newIndex, recorded in moves and dropped from the
\* cache.
getMovesRound(G, p, i, end, offset, moves) ==
    LET c == G.ret[1]
        ps == [G.paths EXCEPT
                  ![c].name = newIndex(i, offset),
                  ![p].childCache = Restrict(@, DOMAIN @ \ {i})]
    IN  IF G.err THEN G
        ELSE IF G.paths[c].name # i THEN Throw(G)
        ELSE getMovesLoop([G EXCEPT !.paths = ps], p, i + 1, end, offset,
                          (newIndex(i, offset) :> c) @@ moves)

\* The loop of getMoves over i in start..end-1, for the present indices; ret
\* is <<moves, FALSE>>: the table the returned closure works from, the closure
\* not being emptyMoves.
getMovesLoop(S, p, i, end, offset, moves) ==
    IF i >= end THEN [S EXCEPT !.ret = <<moves, FALSE>>]
    ELSE IF ~HasOwn(S.heap, S.paths[p].value, i)
    THEN getMovesLoop(S, p, i + 1, end, offset, moves)
    ELSE getMovesRound(getChildPath(S, p, i), p, i, end, offset, moves)

Max(a, b) == IF a > b THEN a ELSE b

\* getMoves(path, offset, start): ret is <<moves, isEmptyMoves>>, the table
\* the returned closure works from and whether the function returned is
\* emptyMoves.  hasStart tells the two-argument call from the three-argument
\* one; no caller passes end.
getMoves(S, p, offset, hasStart, start) ==
    LET v == S.paths[p].value
        length == S.heap[v].length
    IN  IF ~IsArrayObj(S.heap, v) THEN Throw(S)
        ELSE IF offset = 0 \/ length < 1
        THEN [S EXCEPT !.ret = <<EmptyMap, TRUE>>]
        ELSE getMovesLoop(S, p, IF hasStart THEN Max(start, 0) ELSE 0,
                          length, offset, EmptyMap)

\* The order in which for-in enumerates the keys of moves: the array indices
\* ascending, then the other keys (only -1 can occur).
MoveOrder(moves) ==
    LET nonneg == {k \in DOMAIN moves : k >= 0}
        neg == {k \in DOMAIN moves : k < 0}
        RECURSIVE asc(_)
        asc(Ks) == IF Ks = {} THEN <<>>
                   ELSE LET m == CHOOSE k \in Ks : \A j \in Ks : k <= j
                        IN  <<m>> \o asc(Ks \ {m})
    IN  asc(nonneg) \o asc(neg)

\* The closure getMoves returns: every moved child path is put back into the
\* cache under its new index and its value is written to that index.
RECURSIVE moveLoop(_, _, _, _)
moveLoop(S, p, moves, order) ==
    IF order = <<>> THEN S
    ELSE LET key == Head(order)
             c == moves[key]
             ps == [S.paths EXCEPT ![p].childCache = (key :> c) @@ @]
             hp == PutProp(S.heap, S.paths[p].value, key, S.paths[c].value)
         IN  IF S.paths[c].name # key THEN Throw(S)
             ELSE moveLoop([S EXCEPT !.paths = ps, !.heap = hp], p, moves,
                           Tail(order))

move(S, p, moves) == moveLoop(S, p, moves, MoveOrder(moves))


\* A function's last statements once its work ended in state S: the exception
\* goes on, or ret is returned.
Return(S, ret) == IF S.err THEN S ELSE [S EXCEPT !.ret = ret]

\* The last check of repairRelationshipWithParent, once
\* path.parentPath.get(path.name) ended in state G.
repairChecked(G, p) ==
    IF G.err THEN G
    ELSE IF G.ret[1] # p THEN Throw(G)
    ELSE [G EXCEPT !.ret = <<p>>]

\* The checks that end repairRelationshipWithParent, in the state S1 its
\* repair left.
repairVerify(S1, p) ==
    LET pp == S1.paths[p].parentPath
        nm1 == S1.paths[p].name
    IN  IF S1.err THEN S1
        ELSE IF GetProp(S1.heap, S1.paths[pp].value, nm1) # S1.paths[p].value
        THEN Throw(S1)
        ELSE repairChecked(getChildPath(S1, pp, nm1), p)

\* repairRelationshipWithParent(path), for a path that has a parent.
repairRelationshipWithParent(S, p) ==
    LET pp == S.paths[p].parentPath
        parentValue == S.paths[pp].value
        val == S.paths[p].value
        nm == S.paths[p].name
        i == ArrayIndexOf(S.heap, parentValue, val)
    IN  IF parentValue = Undef THEN Throw(S)
        ELSE repairVerify(
                IF GetProp(S.heap, parentValue, nm) = val
                THEN [S EXCEPT !.paths[pp].childCache = (nm :> p) @@ @]
                ELSE IF IsArrayObj(S.heap, parentValue)
                THEN IF i >= 0
                     THEN [S EXCEPT !.paths[p].name = i,
                                    !.paths[pp].childCache = (i :> p) @@ @]
                     ELSE S
                ELSE IF ~IsObj(parentValue) THEN Throw(S)
                ELSE [S EXCEPT !.heap = PutProp(S.heap, parentValue, nm, val),
                               !.paths[pp].childCache = (nm :> p) @@ @],
                p)

RECURSIVE replaceResults(_, _, _, _, _)
\* One round of the loop below, once this.parentPath.get(this.name + i) ended
\* in state G; results are the paths collected so far.
replaceCollect(G, results, pp, nm, count, i) ==
    IF G.err THEN G
    ELSE replaceResults([G EXCEPT !.ret = results \o G.ret], pp, nm, count, i + 1)

\* The calls this.parentPath.get(this.name + i), i = 0..count-1, at the end
\* of replace; ret collects the paths.
replaceResults(S, pp, nm, count, i) ==
    IF i >= count THEN S
    ELSE replaceCollect(getChildPath(S, pp, nm + i), S.ret, pp, nm, count, i)

\* The end of the array branch: results[0] must be this.
replaceReturn(R, p) ==
    IF R.err THEN R
    ELSE IF R.ret[1] # p THEN Throw(R)
    ELSE R

\* The array branch of replace for no values, keeping this.value.
replaceDelete_KeepValue(S, p) ==
    [S EXCEPT !.paths[S.paths[p].parentPath].childCache =
                  Restrict(@, DOMAIN @ \ {S.paths[p].name}),
              !.paths[p].childCache = EmptyMap,
              !.ret = <<>>]

\* The array branch of replace for no values: delete this.value, delete
\* parentCache[this.name], this.__childCache = null.
replaceDelete(S, p) ==
    [S EXCEPT !.paths[p].value = Undef,
              !.paths[S.paths[p].parentPath].childCache =
                  Restrict(@, DOMAIN @ \ {S.paths[p].name}),
              !.paths[p].childCache = EmptyMap,
              !.ret = <<>>]

\* The array branch of replace without the assignment this.value = replacement.
replaceAssign_StaleValue(S, p, replacement) == [S EXCEPT !.ret = <<>>]

\* if (this.value !== replacement) { this.value = replacement;
\* this.__childCache = null }
replaceAssign(S, p, replacement) ==
    IF S.paths[p].value # replacement
    THEN [S EXCEPT !.paths[p].value = replacement,
                   !.paths[p].childCache = EmptyMap, !.ret = <<>>]
    ELSE [S EXCEPT !.ret = <<>>]

\* The array branch of replace from the call of move on, which ended in
\* state S3.
replaceMoved(S3, p, args) ==
    LET pp == S3.paths[p].parentPath
        parentValue == S3.paths[pp].value
        count == Len(args)
        nm3 == S3.paths[p].name
    IN  IF S3.err THEN S3
        ELSE IF count = 0 THEN replaceDelete(S3, p)
        ELSE IF GetProp(S3.heap, parentValue, nm3) # args[1] THEN Throw(S3)
        ELSE replaceReturn(
                replaceResults(replaceAssign(S3, p, args[1]), pp, nm3, count, 0),
                p)

\* The array branch of replace from the splice on, getMoves having ended in
\* state M; value and originalLength are this.value and the length of the
\* array as replace found them.
replaceSplice(M, p, args, value, originalLength) ==
    LET pp == M.paths[p].parentPath
        parentValue == M.paths[pp].value
        count == Len(args)
        nm2 == M.paths[p].name
        S2 == [M EXCEPT !.heap = ArraySplice(M.heap, parentValue, nm2, 1, args)]
    IN  IF M.err THEN M
        ELSE IF SplicedOut0(M.heap[parentValue], nm2, 1) # value THEN Throw(S2)
        ELSE IF S2.heap[parentValue].length # originalLength - 1 + count
        THEN Throw(S2)
        ELSE replaceMoved(move(S2, pp, M.ret[1]), p, args)

\* The array branch of replace, entered after the repair.
replaceInArray(S, p, args) ==
    LET pp == S.paths[p].parentPath
        parentValue == S.paths[pp].value
    IN  replaceSplice(getMoves(S, pp, Len(args) - 1, TRUE, S.paths[p].name + 1),
                      p, args, S.paths[p].value, S.heap[parentValue].length)

\* replace after the repair, taking the record branch of one value for any
\* number of values.
replaceRepaired_FirstOnly(S1, p, args) ==
    LET pp == S1.paths[p].parentPath
        parentValue == S1.paths[pp].value
        count == Len(args)
        nm == S1.paths[p].name
    IN  IF S1.err THEN S1
        ELSE IF IsArrayObj(S1.heap, parentValue) THEN replaceInArray(S1, p, args)
        ELSE IF count >= 1
        THEN LET S2 == [S1 EXCEPT !.paths[p].childCache =
                           IF S1.paths[p].value # args[1] THEN EmptyMap ELSE @]
             IN  IF ~IsObj(parentValue) THEN Throw(S2)
                 ELSE [S2 EXCEPT !.paths[p].value = args[1],
                                 !.heap = PutProp(S1.heap, parentValue, nm, args[1]),
                                 !.ret = <<p>>]
        ELSE IF count = 0
        THEN [S1 EXCEPT !.heap = IF IsObj(parentValue)
                                 THEN DelProp(S1.heap, parentValue, nm) ELSE @,
                        !.paths[p].value = Undef,
                        !.paths[p].childCache = EmptyMap,
                        !.ret = <<>>]
        ELSE Throw(S1)

\* replace from the repair on, which ended in state S1: the array branch, the
\* branch of one value, the branch of none, or the error.
replaceRepaired(S1, p, args) ==
    LET pp == S1.paths[p].parentPath
        parentValue == S1.paths[pp].value
        count == Len(args)
        nm == S1.paths[p].name
    IN  IF S1.err THEN S1
        ELSE IF IsArrayObj(S1.heap, parentValue) THEN replaceInArray(S1, p, args)
        ELSE IF count = 1
        THEN LET S2 == [S1 EXCEPT !.paths[p].childCache =
                           IF S1.paths[p].value # args[1] THEN EmptyMap ELSE @]
             IN  IF ~IsObj(parentValue) THEN Throw(S2)
                 ELSE [S2 EXCEPT !.paths[p].value = args[1],
                                 !.heap = PutProp(S1.heap, parentValue, nm, args[1]),
                                 !.ret = <<p>>]
        ELSE IF count = 0
        THEN [S1 EXCEPT !.heap = IF IsObj(parentValue)
                                 THEN DelProp(S1.heap, parentValue, nm) ELSE @,
                        !.paths[p].value = Undef,
                        !.paths[p].childCache = EmptyMap,
                        !.ret = <<>>]
        ELSE Throw(S1)

\* replace(...args): ret is the list of paths returned.
replace(S, p, args) ==
    IF S.paths[p].parentPath = Null THEN Throw(S)
    ELSE replaceRepaired(repairRelationshipWithParent(S, p), p, args)

\* shift from the call of this.value.shift() on, getMoves having ended in
\* state M.
shiftMoved(M, p) ==
    LET v == M.paths[p].value
    IN  IF M.err THEN M
        ELSE Return(move([M EXCEPT !.heap = ArrayShift(M.heap, v)], p, M.ret[1]),
                    <<GetProp(M.heap, v, 0)>>)

\* shift(): ret is <<the element removed>>.
shift(S, p) == shiftMoved(getMoves(S, p, -1, FALSE, 0), p)

\* unshift from the call of this.value.unshift on, getMoves having ended in
\* state M.
unshiftMoved(M, p, args) ==
    LET v == M.paths[p].value
    IN  IF M.err THEN M
        ELSE Return(move([M EXCEPT !.heap = ArrayUnshift(M.heap, v, args)],
                         p, M.ret[1]),
                    <<M.heap[v].length + Len(args)>>)

\* unshift moving the child paths up by one, whatever the number of values.
unshift_ByOne(S, p, args) == unshiftMoved(getMoves(S, p, 1, FALSE, 0), p, args)

\* unshift(...args): ret is <<the new length>>.
unshift(S, p, args) ==
    unshiftMoved(getMoves(S, p, Len(args), FALSE, 0), p, args)

\* push(...args): ret is <<the new length>>.
push(S, p, args) ==
    LET v == S.paths[p].value
        h == ArrayPush(S.heap, v, args)
    IN  IF ~IsArrayObj(S.heap, v) THEN Throw(S)
        ELSE [S EXCEPT !.heap = h, !.ret = <<h[v].length>>]

\* pop(): ret is <<the element removed>>.
pop(S, p) ==
    LET v == S.paths[p].value
        length == S.heap[v].length
    IN  IF ~IsArrayObj(S.heap, v) THEN Throw(S)
        ELSE [S EXCEPT !.paths[p].childCache = Restrict(@, DOMAIN @ \ {length - 1}),
                       !.heap = ArrayPop(S.heap, v),
                       !.ret = <<IF length = 0 THEN Undef
                                 ELSE GetProp(S.heap, v, length - 1)>>]

\* The loop of insertAt writing this.value[index + i - 1] = arguments[i].
RECURSIVE insertValues(_, _, _, _)
insertValues(h, v, index, args) ==
    IF args = <<>> THEN h
    ELSE insertValues(PutProp(h, v, index, Head(args)), v, index + 1, Tail(args))

\* insertAt from the test of move on, getMoves having ended in state M.
insertMoved(M, p, index, args) ==
    LET v == M.paths[p].value
    IN  IF M.err THEN M
        ELSE IF M.ret[2] THEN [M EXCEPT !.ret = <<p>>]
        ELSE Return(move([M EXCEPT !.heap = insertValues(M.heap, v, Max(index, 0),
                                                         args)],
                         p, M.ret[1]),
                    <<p>>)

\* insertAt moving the child paths from index + 1 on.
insertAt_OffByOne(S, p, index, args) ==
    insertMoved(getMoves(S, p, Len(args), TRUE, index + 1), p, index, args)

\* insertAt(index, ...args): ret is <<this>>.
insertAt(S, p, index, args) ==
    insertMoved(getMoves(S, p, Len(args), TRUE, index), p, index, args)

\* insertBefore(...args) and insertAfter(...args): the parent's insertAt at
\* this.name and this.name + 1.
insertBefore(S, p, args) ==
    LET pp == S.paths[p].parentPath
    IN  IF pp = Null THEN Throw(S)
        ELSE insertAt(S, pp, S.paths[p].name, args)

insertAfter(S, p, args) ==
    LET pp == S.paths[p].parentPath
    IN  IF pp = Null THEN Throw(S)
        ELSE insertAt(S, pp, S.paths[p].name + 1, args)


RECURSIVE eachCollect(_, _, _, _)
\* One round of the loop below, once this.get(i) ended in state G;
\* childPaths are the paths collected so far.
eachCollected(G, childPaths, p, i, len) ==
    IF G.err THEN G
    ELSE eachCollect([G EXCEPT !.ret = <<(i :> G.ret[1]) @@ childPaths>>],
                     p, i + 1, len)

\* each(callback): the first loop, collecting this.get(i) for the present
\* indices below len into childPaths (kept in ret).
eachCollect(S, p, i, len) ==
    IF i >= len THEN S
    ELSE IF ~HasOwn(S.heap, S.paths[p].value, i) THEN eachCollect(S, p, i + 1, len)
    ELSE eachCollected(getChildPath(S, p, i), S.ret[1], p, i, len)

\* The second loop of each testing the array as it is at iteration i.
eachInvokes_Live(S, it, i) ==
    i \in DOMAIN it.childPaths /\ HasOwn(S.heap, S.paths[it.path].value, i)

\* The second loop of each: whether iteration i invokes the callback, and the
\* child path it passes.
eachInvokes(S, it, i) == i \in DOMAIN it.childPaths

eachArgument(S, it, i) == it.childPaths[i]

\* The next iteration at or after it.i that invokes the callback, or it.len.
eachNext(S, it) ==
    LET c == {i \in it.i..(it.len - 1) : eachInvokes(S, it, i)}
    IN  IF c = {} THEN it.len ELSE CHOOSE i \in c : \A j \in c : i <= j

\* -------------------------------------------------------------- the system
Cur == St(heap, paths)

\* The path get(k) would return without constructing one, or Null.
Lookup(S, p, k) ==
    IF CanRead(S, p) /\ CacheHit(S, p, k) THEN S.paths[p].childCache[k] ELSE Null

PathIds == 1..Len(paths)

O1 == ObjBase + 1
O2 == ObjBase + 2

Obj(kind, length, props) == [kind |-> kind, length |-> length, props |-> props]

SpareObj == Obj("object", 0, (KeyA :> 2))

\* The trees a run starts from: an array of distinct primitives, a record in
\* a record, an array with a hole in a record.
InitHeaps ==
    { (O1 :> Obj("array", n, [i \in 0..(n - 1) |-> i + 1]))
      @@ (O2 :> Obj("object", 0, EmptyMap)) @@ (Spare :> SpareObj)
      : n \in 0..MaxLen }
    \cup
    { (O1 :> Obj("object", 0, (KeyA :> O2) @@ (KeyB :> 1)))
      @@ (O2 :> Obj("object", 0, (KeyA :> 1) @@ (KeyB :> 2)))
      @@ (Spare :> SpareObj),
      (O1 :> Obj("object", 0, (KeyA :> O2)))
      @@ (O2 :> Obj("array", 2, (1 :> 2)))
      @@ (Spare :> SpareObj) }

NoCall == [op |-> "none", path |-> Null, index |-> Null, args |-> <<>>,
           ret |-> <<>>, err |-> FALSE]

Call(op, p, index, args, S) ==
    [op |-> op, path |-> p, index |-> index, args |-> args,
     ret |-> S.ret, err |-> S.err]

\* got remembers one earlier call of get since the last mutating call: the
\* path, the key and the result.  A read either keeps what is remembered or
\* remembers the call before it, when that was a get.
NoGot == <<>>

Remembered ==
    {got} \cup (IF last.op = "get" /\ ~last.err
                THEN {<<last.path, last.index, last.ret[1]>>} ELSE {})

Idle == [active |-> FALSE, path |-> Null, len |-> 0, childPaths |-> EmptyMap,
         i |-> 0, log |-> <<>>, present |-> {}, snapshot |-> EmptyMap,
         mutated |-> FALSE, count |-> 0]

Init ==
    /\ heap \in InitHeaps
    /\ paths = <<NewPath(O1, Null, Null)>>
    /\ last = NoCall
    /\ got = NoGot
    /\ iter = Idle
    /\ nmut = 0
    /\ nget = 0
    /\ visitors = <<>>
    /\ contexts = <<>>
    /\ log = <<>>
    /\ views = <<>>
    /\ nvis = 0

\* The keys a caller navigates by: the fields of a record, the indices of an
\* array and the index after its last.
KeysOf(p) ==
    LET v == paths[p].value
    IN  IF ~IsObj(v) THEN {}
        ELSE IF heap[v].kind = "array" THEN 0..heap[v].length
        ELSE {KeyA, KeyB}

\* The indices a caller passes to insertAt: from one below the first to the
\* end of the array.
IndicesOf(p) ==
    LET v == paths[p].value
    IN  IF IsArrayObj(heap, v) THEN -1..heap[v].length ELSE {}

\* The argument lists of replace: none, any one value, and 9, 1, 9, ... for
\* every length from two to MaxArgs.
ManyArgs == {[i \in 1..n |-> IF i % 2 = 1 THEN 9 ELSE 1] : n \in 2..MaxArgs}

ArgLists == {<<>>} \cup {<<x>> : x \in InVals} \cup ManyArgs

\* The values inserted into an array: none, one, and the longer lists.
InsertLists == {<<>>, <<9>>} \cup ManyArgs

HasParent(p) == paths[p].parentPath # Null

IsArrayPath(p) == IsArrayObj(heap, paths[p].value)

\* The second loop of each, from iteration it.i up to and including its next
\* invocation of the callback, or to its end.
eachAdvance(S, it) ==
    LET i == eachNext(S, it)
    IN  IF i < it.len
        THEN [it EXCEPT !.i = i + 1,
                        !.log = Append(@, <<i, eachArgument(S, it, i)>>)]
        ELSE [it EXCEPT !.i = it.len, !.active = FALSE]

\* What is left of a call of each once it has returned: the count of calls.
Returned == [Idle EXCEPT !.count = iter.count]

\* The state after a call that ended in state S.
Finish(S) ==
    /\ Len(S.paths) <= MaxPaths
    /\ heap' = S.heap
    /\ paths' = S.paths

\* A mutating call that ended in state S.  While each is running, the call
\* is made by its callback: the loop of each advances to the invocation and
\* the callback makes the call.
Mutation(op, p, index, args, S) ==
    /\ nmut < MaxMuts
    /\ iter.active => eachNext(Cur, iter) < iter.len
    /\ Finish(S)
    /\ last' = Call(op, p, index, args, S)
    /\ got' = NoGot
    /\ iter' = IF iter.active
               THEN [eachAdvance(Cur, iter) EXCEPT !.mutated = TRUE]
               ELSE Returned
    /\ nmut' = nmut + 1
    /\ UNCHANGED nget
    /\ UNCHANGED visitorVars

\* A call of get that ended in state S.
Got(p, k, S) ==
    /\ ~iter.active
    /\ nmut < MaxMuts
    /\ Finish(S)
    /\ last' = Call("get", p, k, <<>>, S)
    /\ got' \in Remembered
    /\ nget' = IF Len(S.paths) > Len(paths) THEN nget + 1 ELSE nget
    /\ nget' <= MaxGets
    /\ iter' = Returned
    /\ UNCHANGED nmut
    /\ UNCHANGED visitorVars

Get(p, k) == Got(p, k, get(Cur, p, <<k>>))

Replace(p, args) == Mutation("replace", p, Null, args, replace(Cur, p, args))

InsertAt(p, index, args) ==
    Mutation("insertAt", p, index, args, insertAt(Cur, p, index, args))

InsertBefore(p, args) ==
    Mutation("insertBefore", p, Null, args, insertBefore(Cur, p, args))

InsertAfter(p, args) ==
    Mutation("insertAfter", p, Null, args, insertAfter(Cur, p, args))

Shift(p) == Mutation("shift", p, Null, <<>>, shift(Cur, p))

Unshift(p, args) == Mutation("unshift", p, Null, args, unshift(Cur, p, args))

Push(p, args) == Mutation("push", p, Null, args, push(Cur, p, args))

Pop(p) == Mutation("pop", p, Null, <<>>, pop(Cur, p))

\* The first loop of each having ended in state S, the second loop begins.
EachStarted(p, S) ==
    LET v == paths[p].value
        len == heap[v].length
        present == {i \in 0..(len - 1) : HasOwn(heap, v, i)}
    IN  /\ ~S.err
        /\ Finish(S)
        /\ iter' = [active |-> TRUE, path |-> p, len |-> len,
                    childPaths |-> S.ret[1], i |-> 0, log |-> <<>>,
                    present |-> present,
                    snapshot |-> [i \in present |-> Lookup(S, p, i)],
                    mutated |-> FALSE, count |-> iter.count + 1]
        /\ last' = Call("each", p, Null, <<>>, [S EXCEPT !.ret = <<>>])
        /\ got' \in Remembered
        /\ UNCHANGED <<nmut, nget>>
        /\ UNCHANGED visitorVars

\* each(callback) up to the first invocation of the callback: the child paths
\* of the present indices are collected.
EachStart(p) ==
    /\ ~iter.active
    /\ nmut < MaxMuts
    /\ iter.count < MaxEach
    /\ IsArrayObj(heap, paths[p].value)
    /\ EachStarted(p, eachCollect([Cur EXCEPT !.ret = <<EmptyMap>>], p, 0,
                                  heap[paths[p].value].length))

\* each goes on to its next invocation of the callback, which leaves the
\* tree alone, or to its end.
EachStep ==
    /\ iter.active
    /\ iter' = eachAdvance(Cur, iter)
    /\ last' = [NoCall EXCEPT !.op = IF iter'.active THEN "callback" ELSE "eachEnd",
                              !.path = iter.path]
    /\ UNCHANGED <<heap, paths, got, nmut, nget>>
    /\ UNCHANGED visitorVars

Next ==
    \/ \E p \in PathIds : \E k \in KeysOf(p) : Get(p, k)
    \/ \E p \in PathIds, args \in ArgLists : HasParent(p) /\ Replace(p, args)
    \/ \E p \in PathIds, args \in InsertLists : \E index \in IndicesOf(p) :
          InsertAt(p, index, args)
    \/ \E p \in PathIds : HasParent(p) /\ InsertBefore(p, <<9>>)
    \/ \E p \in PathIds : HasParent(p) /\ InsertAfter(p, <<9>>)
    \/ \E p \in PathIds : IsArrayPath(p) /\ Shift(p)
    \/ \E p \in PathIds, args \in InsertLists : IsArrayPath(p) /\ Unshift(p, args)
    \/ \E p \in PathIds, args \in InsertLists : IsArrayPath(p) /\ Push(p, args)
    \/ \E p \in PathIds : IsArrayPath(p) /\ Pop(p)
    \/ \E p \in PathIds : EachStart(p)
    \/ EachStep

Spec == Init /\ [][Next]_vars


\* The id of the next object allocated on heap h.
NewObjId(h) == 1 + CHOOSE m \in DOMAIN h : \A o \in DOMAIN h : o <= m

\* --------------------------------------------------------------- NodePath
\* The views a NodePath has cached are kept apart from the Path objects:
\* views[p] is defined for the paths that have cached one, and holds for each
\* of node, parent and scope the empty sequence or the value cached.
NoViews == [node |-> <<>>, parent |-> <<>>, scope |-> <<>>]

ViewsOf(S, p) == IF p \in DOMAIN S.views THEN S.views[p] ELSE NoViews

\* The views of path p with the view named by field cached as ret.
Cached(S, p, field, ret) ==
    [S EXCEPT !.views = (p :> [ViewsOf(S, p) EXCEPT ![field] = ret])
                           @@ Restrict(@, DOMAIN @ \ {p})]

\* The getter of node: the own property when there is one, the value
\* _computeNode returns otherwise, which becomes the own property.
RECURSIVE readNode(_, _)

\* _computeNode
computeNode(S, p) ==
    IF IsNode(S.heap, S.paths[p].value) THEN [S EXCEPT !.ret = <<S.paths[p].value>>]
    ELSE IF S.paths[p].parentPath = Null THEN [S EXCEPT !.ret = <<Null>>]
    ELSE readNode(S, S.paths[p].parentPath)

nodeComputed(C, p) == Cached(C, p, "node", C.ret)

readNode(S, p) ==
    IF ViewsOf(S, p).node # <<>> THEN [S EXCEPT !.ret = ViewsOf(S, p).node]
    ELSE nodeComputed(computeNode(S, p), p)

\* while (pp && !n.Node.check(pp.value)) pp = pp.parentPath
RECURSIVE firstNodePath(_, _)
firstNodePath(S, pp) ==
    IF pp = Null \/ IsNode(S.heap, S.paths[pp].value) THEN pp
    ELSE firstNodePath(S, S.paths[pp].parentPath)

\* if (pp) pp = pp.parentPath
above(S, pp) == IF pp = Null THEN Null ELSE S.paths[pp].parentPath

\* _computeParent without the step above the path of this.node.
computeParent_NoSkip(S, p) == firstNodePath(S, S.paths[p].parentPath)

\* _computeParent
computeParent(S, p) ==
    IF IsNode(S.heap, S.paths[p].value)
    THEN firstNodePath(S, S.paths[p].parentPath)
    ELSE firstNodePath(S, above(S, firstNodePath(S, S.paths[p].parentPath)))

\* The getter of parent.
readParent(S, p) ==
    IF ViewsOf(S, p).parent # <<>> THEN [S EXCEPT !.ret = ViewsOf(S, p).parent]
    ELSE Cached([S EXCEPT !.ret = <<computeParent(S, p)>>], p, "parent",
                <<computeParent(S, p)>>)

\* Scope.isEstablishedBy(value), for a node: the statement is the type that
\* establishes a scope.
isEstablishedBy(h, value) == h[value].props[KeyType] = TStatement

\* new Scope(path, parentScope): a new object that holds the two.
NewScope(S, p, parentScope) ==
    [S EXCEPT !.heap = (NewObjId(S.heap) :>
                           [kind |-> "scope", length |-> 0,
                            props |-> (KeyA :> p) @@ (KeyB :> parentScope)]) @@ @,
              !.ret = <<NewObjId(S.heap)>>]

\* The getter of scope.
RECURSIVE readScope(_, _)

\* _computeScope once pp && pp.scope is the result of state R.
scopeFrom(R, p) ==
    IF IsNode(R.heap, R.paths[p].value) /\ isEstablishedBy(R.heap, R.paths[p].value)
    THEN NewScope(R, p, R.ret[1])
    ELSE R

\* _computeScope
computeScope(S, p) ==
    IF S.paths[p].parentPath = Null
    THEN scopeFrom([S EXCEPT !.ret = <<Null>>], p)
    ELSE scopeFrom(readScope(S, S.paths[p].parentPath), p)

scopeComputed(C, p) == Cached(C, p, "scope", C.ret)

readScope(S, p) ==
    IF ViewsOf(S, p).scope # <<>> THEN [S EXCEPT !.ret = ViewsOf(S, p).scope]
    ELSE scopeComputed(computeScope(S, p), p)

\* NodePathImpl.replace: delete this.node, this.parent and this.scope, then
\* the replace of Path.
nodePathReplace(S, p, args) ==
    replace([S EXCEPT !.views = Restrict(@, DOMAIN @ \ {p})], p, args)

\* node.type, parent.type
TypeOfNode(h, v) == GetProp(h, v, KeyType)

\* A get on the path after the call that ended in state R.
getAfter(R, p, name) == IF R.err THEN R ELSE getChildPath(R, p, name)

\* The tiers of the binary and logical operators, the lowest first.
Tiers ==
    << <<"||">>, <<"&&">>, <<"|">>, <<"^">>, <<"&">>,
       <<"==", "===", "!=", "!==">>,
       <<"<", ">", "<=", ">=", "in", "instanceof">>,
       <<">>", "<<", ">>>">>,
       <<"+", "-">>,
       <<"*", "/", "%">> >>

TierOps(i) == {Op(Tiers[i][j]) : j \in DOMAIN Tiers[i]}

\* PRECEDENCE[op] = i for every op of tier i, the tiers counted from 0.
PRECEDENCE ==
    [o \in UNION {TierOps(i) : i \in DOMAIN Tiers}
        |-> (CHOOSE i \in DOMAIN Tiers : o \in TierOps(i)) - 1]

\* What the switch of needsParens comes to: a value returned, an error thrown,
\* or the statements after the switch.
Returns(b) == [kind |-> "return", value |-> b]

Throws == [kind |-> "throw", value |-> FALSE]

FallsThrough == [kind |-> "fallthrough", value |-> FALSE]

\* this.name === key && parent[key] === node
IsSlot(S, p, parent, key) ==
    S.paths[p].name = key /\ GetProp(S.heap, parent, key) = S.paths[p].value

\* pp > np, for pp = PRECEDENCE[po] and np = PRECEDENCE[no]: false when either
\* is undefined.
tierAbove(po, no) ==
    /\ po \in DOMAIN PRECEDENCE /\ no \in DOMAIN PRECEDENCE
    /\ PRECEDENCE[po] > PRECEDENCE[no]

\* pp === np: two undefined tiers are equal.
tierSame(po, no) ==
    IF po \in DOMAIN PRECEDENCE /\ no \in DOMAIN PRECEDENCE
    THEN PRECEDENCE[po] = PRECEDENCE[no]
    ELSE po \notin DOMAIN PRECEDENCE /\ no \notin DOMAIN PRECEDENCE

\* The case of a binary or logical parent without the test of this.name.
binaryInBinary_AnyOperand(S, p, parent) ==
    LET node == S.paths[p].value
        po == GetProp(S.heap, parent, KeyOperator)
        no == GetProp(S.heap, node, KeyOperator)
    IN  IF tierAbove(po, no) THEN Returns(TRUE)
        ELSE IF tierSame(po, no) THEN Returns(TRUE)
        ELSE Returns(FALSE)

\* needsParens, the case of a binary or logical node under a binary or
\* logical parent.
binaryInBinary(S, p, parent) ==
    LET node == S.paths[p].value
        po == GetProp(S.heap, parent, KeyOperator)
        no == GetProp(S.heap, node, KeyOperator)
    IN  IF tierAbove(po, no) THEN Returns(TRUE)
        ELSE IF tierSame(po, no) /\ S.paths[p].name = KeyRight
        THEN IF GetProp(S.heap, parent, KeyRight) # node THEN Throws
             ELSE Returns(TRUE)
        ELSE Returns(FALSE)

\* containsCallExpression looking at the node alone.
containsCallExpression_Shallow(h, node) == Check(h, node, TCallExpression)

\* containsCallExpression(node)
RECURSIVE containsCallExpression(_, _)
containsCallExpression(h, node) ==
    IF Check(h, node, TCallExpression) THEN TRUE
    ELSE IF IsArrayObj(h, node)
    THEN \E i \in 0..(h[node].length - 1) :
            HasOwn(h, node, i) /\ containsCallExpression(h, h[node].props[i])
    ELSE IF IsNode(h, node)
    THEN \E i \in DOMAIN getFieldNames(h, node) :
            containsCallExpression(h, getFieldValue(h, node, getFieldNames(h, node)[i]))
    ELSE FALSE

\* The default case of the switch: the callee of a new expression.
newCallee(S, p, parent) ==
    IF TypeOfNode(S.heap, parent) = TNewExpression /\ IsSlot(S, p, parent, KeyCallee)
    THEN Returns(containsCallExpression(S.heap, S.paths[p].value))
    ELSE FallsThrough

\* The switch of needsParens over node.type, for the node of path p and the
\* nearest node parent above it.
needsParensSwitch(S, p, parent) ==
    LET node == S.paths[p].value
        type == TypeOfNode(S.heap, node)
        ptype == TypeOfNode(S.heap, parent)
    IN  IF type \in {TUnaryExpression, TSpreadElement, TSpreadProperty}
        THEN Returns(ptype = TMemberExpression /\ IsSlot(S, p, parent, KeyObject))
        ELSE IF type \in {TBinaryExpression, TLogicalExpression}
        THEN IF ptype = TCallExpression
             THEN Returns(IsSlot(S, p, parent, KeyCallee))
             ELSE IF ptype \in {TUnaryExpression, TSpreadElement, TSpreadProperty}
             THEN Returns(TRUE)
             ELSE IF ptype = TMemberExpression
             THEN Returns(IsSlot(S, p, parent, KeyObject))
             ELSE IF ptype \in {TBinaryExpression, TLogicalExpression}
             THEN binaryInBinary(S, p, parent)
             ELSE Returns(FALSE)
        ELSE IF type = TSequenceExpression
        THEN IF ptype = TForStatement THEN Returns(FALSE)
             ELSE IF ptype = TExpressionStatement
             THEN Returns(S.paths[p].name # KeyExpression)
             ELSE Returns(TRUE)
        ELSE IF type = TYieldExpression
        THEN Returns(ptype \in {TBinaryExpression, TLogicalExpression,
                                TUnaryExpression, TSpreadElement, TSpreadProperty,
                                TCallExpression, TMemberExpression, TNewExpression,
                                TConditionalExpression, TYieldExpression})
        ELSE IF type = TLiteral
        THEN Returns(/\ ptype = TMemberExpression
                     /\ GetProp(S.heap, node, KeyValue) \in 1..9
                     /\ IsSlot(S, p, parent, KeyObject))
        ELSE IF type \in {TAssignmentExpression, TConditionalExpression}
        THEN IF ptype \in {TUnaryExpression, TSpreadElement, TSpreadProperty,
                           TBinaryExpression, TLogicalExpression}
             THEN Returns(TRUE)
             ELSE IF ptype = TCallExpression
             THEN Returns(IsSlot(S, p, parent, KeyCallee))
             ELSE IF ptype = TConditionalExpression
             THEN Returns(IsSlot(S, p, parent, KeyTest))
             ELSE IF ptype = TMemberExpression
             THEN Returns(IsSlot(S, p, parent, KeyObject))
             ELSE Returns(FALSE)
        ELSE newCallee(S, p, parent)

\* canBeFirstInStatement once this.node is the result of state N.
canBeFirstChecked(N) ==
    [N EXCEPT !.ret = <<Bool(/\ ~Check(N.heap, N.ret[1], TFunctionExpression)
                             /\ ~Check(N.heap, N.ret[1], TObjectExpression))>>]

\* canBeFirstInStatement(): ret is <<true>> or <<false>>.
canBeFirstInStatement(S, p) == canBeFirstChecked(readNode(S, p))

\* isBinary(node)
isBinary(h, node) ==
    Check(h, node, TBinaryExpression) \/ Check(h, node, TLogicalExpression)

\* parent.body[0] !== node, parent.expressions[0] !== node
FirstOf(h, list) == GetProp(h, list, 0)

RECURSIVE firstInStatement(_, _)

\* One round of the loop of firstInStatement for the path, pq being
\* path.parent and node being path.node, once path.parent.node is the result
\* of state Q.
firstInStatementStep(Q, path, pq, node) ==
    LET parent == Q.ret[1]
        name == Q.paths[path].name
        h == Q.heap
    IN  IF Check(h, parent, TBlockStatement) /\ Q.paths[pq].name = KeyBody /\ name = 0
        THEN IF ~IsObj(GetProp(h, parent, KeyBody)) THEN Throw(Q)
             ELSE IF FirstOf(h, GetProp(h, parent, KeyBody)) # node THEN Throw(Q)
             ELSE [Q EXCEPT !.ret = <<True>>]
        ELSE IF Check(h, parent, TExpressionStatement) /\ name = KeyExpression
        THEN IF GetProp(h, parent, KeyExpression) # node THEN Throw(Q)
             ELSE [Q EXCEPT !.ret = <<True>>]
        ELSE IF /\ Check(h, parent, TSequenceExpression)
                /\ Q.paths[pq].name = KeyExpressions /\ name = 0
        THEN IF ~IsObj(GetProp(h, parent, KeyExpressions)) THEN Throw(Q)
             ELSE IF FirstOf(h, GetProp(h, parent, KeyExpressions)) # node THEN Throw(Q)
             ELSE firstInStatement(Q, pq)
        ELSE IF Check(h, parent, TCallExpression) /\ name = KeyCallee
        THEN IF GetProp(h, parent, KeyCallee) # node THEN Throw(Q)
             ELSE firstInStatement(Q, pq)
        ELSE IF Check(h, parent, TMemberExpression) /\ name = KeyObject
        THEN IF GetProp(h, parent, KeyObject) # node THEN Throw(Q)
             ELSE firstInStatement(Q, pq)
        ELSE IF Check(h, parent, TConditionalExpression) /\ name = KeyTest
        THEN IF GetProp(h, parent, KeyTest) # node THEN Throw(Q)
             ELSE firstInStatement(Q, pq)
        ELSE IF isBinary(h, parent) /\ name = KeyLeft
        THEN IF GetProp(h, parent, KeyLeft) # node THEN Throw(Q)
             ELSE firstInStatement(Q, pq)
        ELSE IF /\ Check(h, parent, TUnaryExpression)
                /\ Falsy(GetProp(h, parent, KeyPrefix)) /\ name = KeyArgument
        THEN IF GetProp(h, parent, KeyArgument) # node THEN Throw(Q)
             ELSE firstInStatement(Q, pq)
        ELSE [Q EXCEPT !.ret = <<False>>]

\* node = path.node; parent = path.parent.node, once path.node is the result
\* of state N.
firstInStatementNode(N, path, pq) ==
    firstInStatementStep(readNode(N, pq), path, pq, N.ret[1])

\* The test path.parent of the loop, once path.parent is the result of
\* state P.
firstInStatementParent(P, path) ==
    IF P.ret[1] = Null THEN [P EXCEPT !.ret = <<True>>]
    ELSE firstInStatementNode(readNode(P, path), path, P.ret[1])

\* firstInStatement(path): ret is <<true>> or <<false>>.
firstInStatement(S, path) == firstInStatementParent(readParent(S, path), path)

\* The statements of needsParens after the switch, once
\* this.canBeFirstInStatement() ended in state C.
needsParensFirst(C, p) ==
    IF C.ret[1] = True THEN [C EXCEPT !.ret = <<False>>]
    ELSE firstInStatement(C, p)

\* The statements after the switch with assumeExpressionContext taken as
\* false.
needsParensFallback_NoContext(S, p, assumeExpressionContext) ==
    needsParensFirst(canBeFirstInStatement(S, p), p)

\* The statements of needsParens after the switch.
needsParensFallback(S, p, assumeExpressionContext) ==
    IF assumeExpressionContext THEN [S EXCEPT !.ret = <<False>>]
    ELSE needsParensFirst(canBeFirstInStatement(S, p), p)

\* needsParens once the switch has come to d.
needsParensDecided(S, p, assumeExpressionContext, d) ==
    IF d.kind = "return" THEN [S EXCEPT !.ret = <<Bool(d.value)>>]
    ELSE IF d.kind = "throw" THEN Throw(S)
    ELSE needsParensFallback(S, p, assumeExpressionContext)

\* needsParens(assumeExpressionContext): ret is <<true>> or <<false>>.
needsParens(S, p, assumeExpressionContext) ==
    LET node == S.paths[p].value
        q == firstNodePath(S, S.paths[p].parentPath)
    IN  IF S.paths[p].parentPath = Null THEN [S EXCEPT !.ret = <<False>>]
        ELSE IF ~Check(S.heap, node, TExpression) THEN [S EXCEPT !.ret = <<False>>]
        ELSE IF TypeOfNode(S.heap, node) = TIdentifier THEN [S EXCEPT !.ret = <<False>>]
        ELSE IF q = Null THEN [S EXCEPT !.ret = <<False>>]
        ELSE needsParensDecided(S, p, assumeExpressionContext,
                                needsParensSwitch(S, p, S.paths[q].value))

\* The object b.expressionStatement, b.unaryExpression return, allocated on
\* the heap of state S; ret is <<the object>>.
Built(S, object) ==
    [S EXCEPT !.heap = (NewObjId(S.heap) :> object) @@ @,
              !.ret = <<NewObjId(S.heap)>>]

RECURSIVE prune(_, _)

\* The last statement of cleanUpIfStatementAfterPrune's second branch:
\* ifStatement.get("alternate").replace(), the get having ended in state G.
ifAlternateRemoved(G) ==
    IF G.err THEN G ELSE nodePathReplace(G, G.ret[1], <<>>)

\* ifStatement.get("consequent").replace(alternate), the get having ended in
\* state G, and what follows.
ifConsequentReplaced(G, ifStatement, alternate) ==
    IF G.err THEN G
    ELSE ifAlternateRemoved(
            getAfter(nodePathReplace(G, G.ret[1], <<alternate>>), ifStatement,
                     KeyAlternate))

\* ifStatement.get("test").replace(negatedTestExpression), the get having
\* ended in state G, and what follows.
ifTestReplaced(G, ifStatement, negatedTestExpression, alternate) ==
    IF G.err THEN G
    ELSE ifConsequentReplaced(
            getAfter(nodePathReplace(G, G.ret[1], <<negatedTestExpression>>),
                     ifStatement, KeyConsequent),
            ifStatement, alternate)

\* The second branch with the negation built in every case.
ifNegated_Always(B, ifStatement, testExpression, alternate) ==
    ifTestReplaced(getChildPath(B, ifStatement, KeyTest), ifStatement, B.ret[1],
                   alternate)

\* The second branch of cleanUpIfStatementAfterPrune, b.unaryExpression('!',
\* testExpression, true) having been built in state B.
ifNegated(B, ifStatement, testExpression, alternate) ==
    ifTestReplaced(
        getChildPath(B, ifStatement, KeyTest), ifStatement,
        IF /\ Check(B.heap, testExpression, TUnaryExpression)
           /\ GetProp(B.heap, testExpression, KeyOperator) = Op("!")
        THEN GetProp(B.heap, testExpression, KeyArgument)
        ELSE B.ret[1],
        alternate)

\* The first branch: ifStatement.replace(testExpressionStatement), the
\* statement having been built in state B.
ifCollapsed(B, ifStatement) == nodePathReplace(B, ifStatement, B.ret)

\* cleanUpIfStatementAfterPrune once the three values are read: the third get
\* ended in state G.
ifBranches(G, ifStatement, testExpression, alternate) ==
    LET consequent == G.paths[G.ret[1]].value
    IN  IF G.err THEN G
        ELSE IF Falsy(consequent) /\ Falsy(alternate)
        THEN ifCollapsed(Built(G, expressionStatement(testExpression)), ifStatement)
        ELSE IF Falsy(consequent)
        THEN ifNegated(Built(G, unaryExpression(Op("!"), testExpression, True)),
                       ifStatement, testExpression, alternate)
        ELSE G

\* cleanUpIfStatementAfterPrune once ifStatement.get('alternate') ended in
\* state G.
ifAlternateRead(G, ifStatement, testExpression) ==
    IF G.err THEN G
    ELSE ifBranches(getChildPath(G, ifStatement, KeyConsequent), ifStatement,
                    testExpression, G.paths[G.ret[1]].value)

\* cleanUpIfStatementAfterPrune once ifStatement.get('test') ended in state G.
ifTestRead(G, ifStatement) ==
    IF G.err THEN G
    ELSE ifAlternateRead(getChildPath(G, ifStatement, KeyAlternate), ifStatement,
                         G.paths[G.ret[1]].value)

\* cleanUpIfStatementAfterPrune(ifStatement)
cleanUpIfStatementAfterPrune(S, ifStatement) ==
    ifTestRead(getChildPath(S, ifStatement, KeyTest), ifStatement)

\* The branch of an empty variable declaration, once
\* remainingNodePath.get('declarations') ended in state G.
cleanUpDeclarations(G, remainingNodePath) ==
    LET declarations == G.paths[G.ret[1]].value
    IN  IF G.err THEN G
        ELSE IF Falsy(declarations)
                \/ (IsArrayObj(G.heap, declarations) /\ G.heap[declarations].length = 0)
        THEN prune(G, remainingNodePath)
        ELSE [G EXCEPT !.ret = <<remainingNodePath>>]

\* The branch of an expression statement, once
\* remainingNodePath.get('expression') ended in state G.
cleanUpExpression(G, remainingNodePath) ==
    IF G.err THEN G
    ELSE IF Falsy(G.paths[G.ret[1]].value) THEN prune(G, remainingNodePath)
    ELSE [G EXCEPT !.ret = <<remainingNodePath>>]

\* cleanUpNodesAfterPrune that leaves a variable declaration alone.
cleanUpNode_KeepDeclaration(N, remainingNodePath) ==
    IF Check(N.heap, N.ret[1], TExpressionStatement)
    THEN cleanUpExpression(getChildPath(N, remainingNodePath, KeyExpression),
                           remainingNodePath)
    ELSE IF Check(N.heap, N.ret[1], TIfStatement)
    THEN Return(cleanUpIfStatementAfterPrune(N, remainingNodePath),
                <<remainingNodePath>>)
    ELSE [N EXCEPT !.ret = <<remainingNodePath>>]

\* cleanUpNodesAfterPrune once remainingNodePath.node is the result of
\* state N.
cleanUpNode(N, remainingNodePath) ==
    IF Check(N.heap, N.ret[1], TVariableDeclaration)
    THEN cleanUpDeclarations(getChildPath(N, remainingNodePath, KeyDeclarations),
                             remainingNodePath)
    ELSE IF Check(N.heap, N.ret[1], TExpressionStatement)
    THEN cleanUpExpression(getChildPath(N, remainingNodePath, KeyExpression),
                           remainingNodePath)
    ELSE IF Check(N.heap, N.ret[1], TIfStatement)
    THEN Return(cleanUpIfStatementAfterPrune(N, remainingNodePath),
                <<remainingNodePath>>)
    ELSE [N EXCEPT !.ret = <<remainingNodePath>>]

\* cleanUpNodesAfterPrune(remainingNodePath): reading the node of null throws.
cleanUpNodesAfterPrune(S, remainingNodePath) ==
    IF remainingNodePath = Null THEN Throw(S)
    ELSE cleanUpNode(readNode(S, remainingNodePath), remainingNodePath)

\* prune once this.replace() ended in state R.
pruneReplaced(R, remainingNodePath) ==
    IF R.err THEN R ELSE cleanUpNodesAfterPrune(R, remainingNodePath)

\* prune once this.parent is the result of state P.
pruneParent(P, p) == pruneReplaced(nodePathReplace(P, p, <<>>), P.ret[1])

\* prune(): ret is <<the remaining NodePath>>.
prune(S, p) == pruneParent(readParent(S, p), p)

\* ------------------------------------------------------------ PathVisitor
\* The machine state of the calls of a visitor carries, besides the heap and
\* the paths: exc, the exception propagating while err holds (its kind and the
\* visitor whose abort raised it); the visitors and their contexts; the log
\* of the calls made.  A visitor carries methods and reset, what its handlers
\* and its reset hook do when they are called.
NoExc == <<"none", 0>>

ThrowExc(S, kind, v) == [S EXCEPT !.err = TRUE, !.ret = <<>>, !.exc = <<kind, v>>]

Logged(S, e) == [S EXCEPT !.log = Append(@, e)]

\* How the call that ended in state S ended.
Outcome(S) ==
    IF ~S.err THEN "return" ELSE IF S.exc = NoExc THEN "error" ELSE S.exc[1]

\* try { ... } catch (e) {}: the log records what is caught.
Catch(S) ==
    IF S.err
    THEN [Logged(S, <<"caught", Outcome(S)>>)
             EXCEPT !.err = FALSE, !.ret = <<>>, !.exc = NoExc]
    ELSE [S EXCEPT !.ret = <<>>]

\* The flags of a visitor, as the log records them.
Flags(S, v) ==
    <<S.visitors[v].visiting, S.visitors[v].abortRequested,
      S.visitors[v].changeReported>>

\* PathVisitor.fromMethodsObject(methods), for methods visitT given for the
\* type names T in the domain of methods, and a reset hook.
NewVisitor(methods, hook) ==
    [visiting |-> FALSE, changeReported |-> FALSE, abortRequested |-> FALSE,
     reusableContextStack |-> <<>>,
     methodNameTable |-> computeMethodNameTable(DOMAIN methods),
     methods |-> methods, reset |-> hook]

\* The context acquireContext is going to return: a new one when the stack is
\* empty, the top of the stack otherwise.
Acquired(S, v) ==
    LET stack == S.visitors[v].reusableContextStack
    IN  IF stack = <<>> THEN Len(S.contexts) + 1 ELSE stack[Len(stack)]

\* acquireContext(path): new this.Context(path), or the popped context reset
\* to the path.
acquireContext(S, v, path) ==
    LET stack == S.visitors[v].reusableContextStack
        context == [visitor |-> v, currentPath |-> path,
                    needToCallTraverse |-> TRUE]
    IN  IF stack = <<>>
        THEN [S EXCEPT !.contexts = Append(@, context)]
        ELSE [S EXCEPT !.visitors[v].reusableContextStack =
                           SubSeq(stack, 1, Len(stack) - 1),
                       !.contexts[stack[Len(stack)]] = context]

\* The contexts of the reuse pool of visitor v and the current paths they
\* hold, as the log records them.
Pool(S, v) ==
    <<S.visitors[v].reusableContextStack,
      {S.contexts[S.visitors[v].reusableContextStack[i]].currentPath :
          i \in DOMAIN S.visitors[v].reusableContextStack}>>

\* releaseContext without context.currentPath = null.
releaseContext_KeepPath(S, v, c) ==
    Logged([S EXCEPT !.visitors[v].reusableContextStack = Append(@, c)],
           <<"released", v, c,
             Pool([S EXCEPT !.visitors[v].reusableContextStack = Append(@, c)], v)>>)

\* releaseContext(context), in the finally of visitWithoutReset: an exception
\* on its way keeps its way.  The log records the release and the pool it
\* leaves.
releaseContext(S, v, c) ==
    Logged([S EXCEPT !.visitors[v].reusableContextStack = Append(@, c),
                     !.contexts[c].currentPath = Null],
           <<"released", v, c,
             Pool([S EXCEPT !.visitors[v].reusableContextStack = Append(@, c),
                            !.contexts[c].currentPath = Null], v)>>)

\* PathVisitorImpl.abort() without this._abortRequested = true.
abort_NoRequest(S, v) == ThrowExc(Logged(S, <<"abort", v>>), "abort", v)

\* PathVisitorImpl.abort()
abort(S, v) ==
    ThrowExc([Logged(S, <<"abort", v>>) EXCEPT !.visitors[v].abortRequested = TRUE],
             "abort", v)

\* request.cancel() that leaves the request as it is.
cancel_Nothing(S) == S

\* request.cancel(), called on the exception caught in state S.
cancel(S) ==
    IF S.exc[1] = "abort"
    THEN [S EXCEPT !.visitors[S.exc[2]].abortRequested = FALSE]
    ELSE S

\* sharedContextProtoMethods.abort
contextAbort(S, c) ==
    abort([S EXCEPT !.contexts[c].needToCallTraverse = FALSE],
          S.contexts[c].visitor)


RECURSIVE visitWithoutReset(_, _, _)
RECURSIVE visitChildren(_, _, _)
RECURSIVE visit(_, _, _, _)

\* sharedContextProtoMethods.traverse(path)
traverse(S, c, path) ==
    visitChildren([S EXCEPT !.contexts[c].needToCallTraverse = FALSE],
                  path, S.contexts[c].visitor)

\* sharedContextProtoMethods.visit(path)
contextVisit(S, c, path) ==
    visitWithoutReset([S EXCEPT !.contexts[c].needToCallTraverse = FALSE],
                      S.contexts[c].visitor, path)

\* this.visit(path.get("a")) in a handler, once the get ended in state G.
contextVisitChild(G, c) ==
    IF G.err THEN G ELSE contextVisit(G, c, G.ret[1])

\* PathVisitorImpl.reportChanged(); the log records the call.
reportChanged(S, v) ==
    Logged([S EXCEPT !.visitors[v].changeReported = TRUE, !.ret = <<>>],
           <<"report", v>>)

\* PathVisitorImpl.wasChangeReported()
wasChangeReported(S, v) == S.visitors[v].changeReported

\* sharedContextProtoMethods.reportChanged
contextReportChanged(S, c) == reportChanged(S, S.contexts[c].visitor)

\* The methods objects a handler passes to traverse and visit: a handler for
\* literals that reports a change, or aborts, and returns false.
NestedMethods(does) == TLiteral :> [steps |-> <<does>>, ret |-> False]

\* PathVisitorImpl.fromMethodsObject(newVisitor) in traverse and visit of a
\* context, after this.needToCallTraverse = false: the visitor made is the
\* last of the visitors.  The log records the context, the visitor made and
\* the flags of the visitor of the context.
fromMethodsObject(S, c, methods) ==
    Logged([S EXCEPT !.contexts[c].needToCallTraverse = FALSE,
                     !.visitors = Append(@, NewVisitor(methods, "none"))],
           <<"nested", c, Len(S.visitors) + 1, Flags(S, S.contexts[c].visitor)>>)

\* The end of the traversal by the visitor made from a methods object, as
\* the log records it.
nestedEnded(N, c, nv) ==
    Logged(N, <<"nestedEnd", c, nv, Outcome(N), Flags(N, N.contexts[c].visitor)>>)

\* sharedContextProtoMethods.traverse(path, newVisitor) with the visitor of
\* the context in place of the one made from newVisitor.
traverseWith_SameVisitor(S, c, path, methods) ==
    nestedEnded(visitChildren(fromMethodsObject(S, c, methods), path,
                              S.contexts[c].visitor),
                c, Len(S.visitors) + 1)

\* sharedContextProtoMethods.traverse(path, newVisitor)
traverseWith(S, c, path, methods) ==
    nestedEnded(visitChildren(fromMethodsObject(S, c, methods), path,
                              Len(S.visitors) + 1),
                c, Len(S.visitors) + 1)

\* sharedContextProtoMethods.visit(path, newVisitor)
visitWith(S, c, path, methods) ==
    nestedEnded(visitWithoutReset(fromMethodsObject(S, c, methods),
                                  Len(S.visitors) + 1, path),
                c, Len(S.visitors) + 1)

\* try { this.abort() } catch (e) { e.cancel() }: the log records the cancel
\* after the catch.
abortCancelled(S, c) ==
    Logged(Catch(cancel(contextAbort(S, c))), <<"cancel", S.contexts[c].visitor>>)

\* try { this.abort() } catch (e) { e.cancel(); throw e }
abortRethrown(S, c) ==
    ThrowExc(Logged(abortCancelled(S, c), <<"rethrown", S.contexts[c].visitor>>),
             "abort", S.contexts[c].visitor)

\* The node a handler inserts.
Inserted == ObjBase + 9

\* path.parentPath.get(name).replace(), once the get ended in state G.
removeGot(G) == IF G.err THEN G ELSE nodePathReplace(G, G.ret[1], <<>>)

\* path.parentPath.get(name).replace()
removeSibling(S, p, name) ==
    IF S.paths[p].parentPath = Null THEN ThrowExc(S, "error", 0)
    ELSE removeGot(getChildPath(S, S.paths[p].parentPath, name))

\* One statement of a handler called with context c and path p:
\*   "traverse"       this.traverse(path)
\*   "visit"          this.visit(path.get("a"))
\*   "abort"          this.abort()
\*   "abortCaught"    try { this.abort() } catch (e) {}
\*   "abortCancel"    try { this.abort() } catch (e) { e.cancel() }
\*   "abortRethrown"  try { this.abort() } catch (e) { e.cancel(); throw e }
\*   "throw"          throw new Error()
\*   "reenter"        this.visitor.visit(path)
\*   "reenterCaught"  try { this.visitor.visit(path) } catch (e) {}
\*   "report"         this.reportChanged()
\*   "traverseReport" this.traverse(path, { visitLiteral() { this.reportChanged(); return false } })
\*   "traverseAbort"  this.traverse(path, { visitLiteral() { this.abort() } })
\*   "visitReport"    this.visit(path, { visitLiteral() { this.reportChanged(); return false } })
\*   "visitAbort"     this.visit(path, { visitLiteral() { this.abort() } })
\*   "removeSelf"     path.replace()
\*   "pruneSelf"      path.prune()
\*   "removeNext"     path.parentPath.get(path.name + 1).replace()
\*   "removeAt"       path.parentPath.get(path.name).replace()
\*   "insertAfter"    path.insertAfter(node)
\*   "insertBefore"   path.insertBefore(node)
runMutation(S, p, step) ==
    IF step = "removeSelf" THEN nodePathReplace(S, p, <<>>)
    ELSE IF step = "pruneSelf" THEN prune(S, p)
    ELSE IF step = "removeNext" THEN removeSibling(S, p, S.paths[p].name + 1)
    ELSE IF step = "removeAt" THEN removeSibling(S, p, S.paths[p].name)
    ELSE IF step = "insertAfter" THEN insertAfter(S, p, <<Inserted>>)
    ELSE insertBefore(S, p, <<Inserted>>)

runNested(S, c, p, step) ==
    IF step = "report" THEN contextReportChanged(S, c)
    ELSE IF step = "traverseReport" THEN traverseWith(S, c, p, NestedMethods("report"))
    ELSE IF step = "traverseAbort" THEN traverseWith(S, c, p, NestedMethods("abort"))
    ELSE IF step = "visitReport" THEN visitWith(S, c, p, NestedMethods("report"))
    ELSE IF step = "visitAbort" THEN visitWith(S, c, p, NestedMethods("abort"))
    ELSE runMutation(S, p, step)

runStep(S, c, p, step) ==
    IF step = "traverse" THEN traverse(S, c, p)
    ELSE IF step = "visit" THEN contextVisitChild(getChildPath(S, p, KeyA), c)
    ELSE IF step = "abort" THEN contextAbort(S, c)
    ELSE IF step = "abortCaught" THEN Catch(contextAbort(S, c))
    ELSE IF step = "abortCancel" THEN abortCancelled(S, c)
    ELSE IF step = "abortRethrown" THEN abortRethrown(S, c)
    ELSE IF step = "throw"
    THEN ThrowExc(Logged(S, <<"throw", S.contexts[c].visitor>>), "error", 0)
    ELSE IF step = "reenter" THEN visit(S, S.contexts[c].visitor, p, TRUE)
    ELSE IF step = "reenterCaught" THEN Catch(visit(S, S.contexts[c].visitor, p, TRUE))
    ELSE runNested(S, c, p, step)

\* The statements of a handler, up to the first that throws.
RECURSIVE runSteps(_, _, _, _)
runSteps(S, c, p, steps) ==
    IF S.err \/ steps = <<>> THEN S
    ELSE runSteps(runStep(S, c, p, Head(steps)), c, p, Tail(steps))

\* this.visitor[methodName].call(this, this.currentPath): the handler declared
\* for the type name methodName runs its statements and returns its result.
\* The log records the call: the visitor, the method, the path, the context,
\* the value of the path and the pool of the visitor.
callVisitorMethod(S, c, methodName) ==
    LET v == S.contexts[c].visitor
        p == S.contexts[c].currentPath
    IN  Return(runSteps(Logged(S, <<"handler", v, methodName, p, c,
                                    S.paths[p].value, Pool(S, v)>>), c, p,
                        S.visitors[v].methods[methodName].steps),
               <<S.visitors[v].methods[methodName].ret>>)

\* The end of invokeVisitorMethod: the protocol check and the result.
invokeFinish_NoCheck(S, c) ==
    LET path == S.contexts[c].currentPath
    IN  IF S.err THEN S
        ELSE [S EXCEPT !.ret = <<IF path = Null THEN Null ELSE S.paths[path].value>>]

invokeFinish(S, c) ==
    LET path == S.contexts[c].currentPath
    IN  IF S.err THEN S
        ELSE IF S.contexts[c].needToCallTraverse # FALSE
        THEN ThrowExc(S, "protocol", 0)
        ELSE [S EXCEPT !.ret = <<IF path = Null THEN Null ELSE S.paths[path].value>>]

\* invokeVisitorMethod once this.currentPath.replace(result) ended in state R,
\* with the traversal of the replacement left out.
invokeReplaced_NoTraverse(R, c) ==
    IF R.err THEN R
    ELSE invokeFinish([R EXCEPT !.contexts[c].currentPath = R.ret[1],
                                !.contexts[c].needToCallTraverse = FALSE], c)

\* invokeVisitorMethod once this.currentPath.replace(result) ended in state R,
\* with the handler declared for the type of the replacement invoked on it
\* before its children are traversed.
invokeReplaced_Dispatched(R, c) ==
    LET X == IF R.err THEN R ELSE [R EXCEPT !.contexts[c].currentPath = R.ret[1]]
        v == R.contexts[c].visitor
        type == IF R.err THEN Null ELSE TypeOfNode(R.heap, R.paths[R.ret[1]].value)
        table == R.visitors[v].methodNameTable
        D == IF type \in DOMAIN table
             THEN Logged(X, <<"handler", v, table[type], R.ret[1], c,
                              X.paths[R.ret[1]].value, Pool(X, v)>>)
             ELSE X
    IN  IF R.err THEN R
        ELSE IF R.contexts[c].needToCallTraverse
        THEN invokeFinish(traverse(D, c, R.ret[1]), c)
        ELSE invokeFinish(X, c)

\* invokeVisitorMethod once this.currentPath.replace(result) ended in state R.
invokeReplaced(R, c) ==
    IF R.err THEN R
    ELSE IF R.contexts[c].needToCallTraverse
    THEN invokeFinish(traverse([R EXCEPT !.contexts[c].currentPath = R.ret[1]],
                               c, R.ret[1]), c)
    ELSE invokeFinish([R EXCEPT !.contexts[c].currentPath = R.ret[1]], c)

\* invokeVisitorMethod once the handler returned in state H.
invokeResult(H, c) ==
    IF H.ret[1] = False
    THEN invokeFinish([H EXCEPT !.contexts[c].needToCallTraverse = FALSE], c)
    ELSE IF H.ret[1] # Undef
    THEN invokeReplaced(nodePathReplace(H, H.contexts[c].currentPath, H.ret), c)
    ELSE invokeFinish(H, c)

\* invokeVisitorMethod once the handler ended in state H.  The log records
\* the return of the handler: the context, its path, the method, the result
\* and this.needToCallTraverse.
invokeReturned(H, c, methodName) ==
    IF H.err THEN H
    ELSE invokeResult(
            Logged(H, <<"returned", c, H.contexts[c].currentPath, methodName,
                        H.ret[1], H.contexts[c].needToCallTraverse>>),
            c)

\* this.currentPath.parentPath.value[this.currentPath.name], or undefined
\* for a path without parent.
Slot(S, p) ==
    IF S.paths[p].parentPath = Null THEN Undef
    ELSE GetProp(S.heap, S.paths[S.paths[p].parentPath].value, S.paths[p].name)

\* The end of invokeVisitorMethod, as the log records it: the context, its
\* path, how the invocation ended, the value of the path and the value in
\* its slot.
invokeEnded(S, c) ==
    Logged(S, <<"invoked", c, S.contexts[c].currentPath, Outcome(S),
                S.paths[S.contexts[c].currentPath].value,
                Slot(S, S.contexts[c].currentPath)>>)

\* sharedContextProtoMethods.invokeVisitorMethod(methodName)
invokeVisitorMethod(S, c, methodName) ==
    invokeEnded(invokeReturned(callVisitorMethod(S, c, methodName), c, methodName),
                c)


\* value.type for a node, null for any other value.
TypeOf(h, value) ==
    IF IsObj(value) /\ IsNode(h, value) THEN h[value].props[KeyType] ELSE Null

\* visitWithoutReset(path) once the log has recorded the call in state L.
visitDispatch(L, v, path) ==
    LET type == TypeOf(L.heap, L.paths[path].value)
        table == L.visitors[v].methodNameTable
    IN  IF type \in DOMAIN table
        THEN releaseContext(
                invokeVisitorMethod(acquireContext(L, v, path), Acquired(L, v),
                                    table[type]),
                v, Acquired(L, v))
        ELSE visitChildren(L, path, v)

\* Whether the value of the path is a property of the value of its parent
\* path.
InParent(S, path) ==
    /\ S.paths[path].parentPath # Null
    /\ IsObj(S.paths[S.paths[path].parentPath].value)
    /\ \E k \in DOMAIN S.heap[S.paths[S.paths[path].parentPath].value].props :
          S.heap[S.paths[S.paths[path].parentPath].value].props[k] = S.paths[path].value

\* visitWithoutReset(path): the handler the method name table gives for the
\* type of the path's value is invoked on a context, which is released
\* whatever happens; without a handler the children are visited.  The log
\* records the call with the path, the type of its value, the value and
\* whether the parent's value holds it.
visitWithoutReset(S, v, path) ==
    visitDispatch(
        Logged(S, <<"node", v, path, TypeOf(S.heap, S.paths[path].value),
                    S.paths[path].value, InParent(S, path)>>),
        v, path)

\* return path.value, at the end of visitChildren.
childrenVisited(S, path) ==
    IF S.err THEN S ELSE [S EXCEPT !.ret = <<S.paths[path].value>>]

\* The second loop of each in path.each(visitor.visitWithoutReset, visitor).
RECURSIVE visitEachLoop(_, _, _, _, _)
visitEachLoop(S, v, it, i, len) ==
    IF S.err \/ i >= len THEN S
    ELSE IF eachInvokes(S, it, i)
    THEN visitEachLoop(visitWithoutReset(S, v, eachArgument(S, it, i)), v, it,
                       i + 1, len)
    ELSE visitEachLoop(S, v, it, i + 1, len)

\* path.each(visitor.visitWithoutReset, visitor) once its first loop ended
\* in state E.
visitEach(E, v, path, len) ==
    IF E.err THEN E
    ELSE childrenVisited(
            visitEachLoop(E, v, [path |-> path, childPaths |-> E.ret[1]], 0, len),
            path)

\* if (!hasOwn.call(value, childName)) value[childName] =
\* types.getFieldValue(value, childName)
materialize(S, path, childName) ==
    LET value == S.paths[path].value
    IN  IF HasOwn(S.heap, value, childName) THEN S
        ELSE [S EXCEPT !.heap = PutProp(S.heap, value, childName,
                                        getFieldValue(S.heap, value, childName))]

\* The first loop of visitChildren over the child names of a record: ret is
\* <<childPaths>>.
RECURSIVE collectChildPaths(_, _, _, _)
\* One round of that loop, once path.get(childName) ended in state G.
collectedChildPath(G, path, childNames, childPaths) ==
    IF G.err THEN G
    ELSE collectChildPaths(G, path, Tail(childNames), Append(childPaths, G.ret[1]))

collectChildPaths(S, path, childNames, childPaths) ==
    IF childNames = <<>> THEN [S EXCEPT !.ret = <<childPaths>>]
    ELSE collectedChildPath(
            getChildPath(materialize(S, path, Head(childNames)), path,
                         Head(childNames)),
            path, childNames, childPaths)

\* The second loop of visitChildren over the child paths of a record.
RECURSIVE visitChildPaths(_, _, _)
visitChildPaths(S, v, childPaths) ==
    IF S.err \/ childPaths = <<>> THEN S
    ELSE visitChildPaths(visitWithoutReset(S, v, Head(childPaths)), v,
                         Tail(childPaths))

\* visitChildren for a record, once its first loop ended in state C.
visitRecord(C, v, path) ==
    IF C.err THEN C
    ELSE childrenVisited(visitChildPaths(C, v, C.ret[1]), path)

\* visitChildren(path, visitor).  No handler for a comment type is declared,
\* so the comments of a node are not among its child names.
visitChildren(S, path, v) ==
    LET value == S.paths[path].value
        L == Logged(S, <<"children", v, path>>)
    IN  IF IsArrayObj(S.heap, value)
        THEN visitEach(eachCollect([L EXCEPT !.ret = <<EmptyMap>>], path, 0,
                                   S.heap[value].length),
                       v, path, S.heap[value].length)
        ELSE IF ~IsObj(value) THEN childrenVisited(L, path)
        ELSE visitRecord(collectChildPaths(L, path, getFieldNames(S.heap, value),
                                           <<>>),
                         v, path)


\* The end of a call of visit, as the log records it: how it ended and the
\* flags it left.
visitEnded(S, v) == Logged(S, <<"visitEnd", v, Outcome(S), Flags(S, v)>>)

\* The finally block of visit: the visiting flag is cleared, and an exception
\* on its way gives way to the root's value when an abort is requested.
visitFinally(W, v, rootPath) ==
    IF W.err /\ W.visitors[v].abortRequested
    THEN [W EXCEPT !.visitors[v].visiting = FALSE,
                   !.err = FALSE, !.exc = NoExc,
                   !.ret = <<W.paths[rootPath].value>>]
    ELSE [W EXCEPT !.visitors[v].visiting = FALSE]

\* visit from the try block on, the reset hook having ended in state R: its
\* exception leaves visit at once.
visitTry(R, v, rootPath) ==
    IF R.err THEN R
    ELSE visitFinally(visitWithoutReset(R, v, rootPath), v, rootPath)

\* this.reset.apply(this, args): the stub of PathVisitorImpl, or the override
\* the visitor was given:
\*   "throw"          throw new Error()
\*   "reenter"        this.visit(path)
\*   "reenterCaught"  try { this.visit(path) } catch (e) {}
\*   "reportThrow"    this.reportChanged(); throw new Error()
reset(S, v, rootPath) ==
    IF S.visitors[v].reset = "none" THEN Logged(S, <<"reset", v>>)
    ELSE IF S.visitors[v].reset = "reportThrow"
    THEN ThrowExc(reportChanged(Logged(S, <<"reset", v>>), v), "error", 0)
    ELSE IF S.visitors[v].reset = "throw"
    THEN ThrowExc(Logged(S, <<"reset", v>>), "error", 0)
    ELSE IF S.visitors[v].reset = "reenter"
    THEN visit(Logged(S, <<"reset", v>>), v, rootPath, TRUE)
    ELSE Catch(visit(Logged(S, <<"reset", v>>), v, rootPath, TRUE))

\* args[0] = new NodePath({root: args[0]}).get("root"), for a root that is not
\* a NodePath; the root path is the second of the two paths constructed.
coerceRoot(S, root, isPath) ==
    IF isPath THEN S
    ELSE getChildPath(
            [S EXCEPT !.heap = (NewObjId(S.heap) :>
                                   [kind |-> "object", length |-> 0,
                                    props |-> (KeyRoot :> root)]) @@ @,
                      !.paths = Append(@, NewPath(NewObjId(S.heap), Null, Null))],
            Len(S.paths) + 1, KeyRoot)

RootPath(S, root, isPath) == IF isPath THEN root ELSE Len(S.paths) + 2

\* this._visiting = true; this._changeReported = false;
\* this._abortRequested = false
visitStarted(S, v) ==
    [S EXCEPT !.visitors[v].visiting = TRUE,
              !.visitors[v].changeReported = FALSE,
              !.visitors[v].abortRequested = FALSE]

\* The guard of visit taken after the flags are set anew.
visitRefused_FlagsReset(S, v) ==
    ThrowExc([S EXCEPT !.visitors[v].changeReported = FALSE,
                       !.visitors[v].abortRequested = FALSE],
             "reentrant", v)

\* if (this._visiting) throw new Error(...)
visitRefused(S, v) == ThrowExc(S, "reentrant", v)

\* PathVisitorImpl.visit(root), for a root that is a NodePath (isPath) or a
\* bare value.  The log records the call with the flags it found and its end
\* with the flags it left.
visit(S, v, root, isPath) ==
    visitEnded(
        IF S.visitors[v].visiting
        THEN visitRefused(Logged(S, <<"visit", v, Flags(S, v)>>), v)
        ELSE visitTry(
                reset(coerceRoot(visitStarted(Logged(S, <<"visit", v, Flags(S, v)>>), v),
                                 root, isPath),
                      v, RootPath(S, root, isPath)),
                v, RootPath(S, root, isPath)),
        v)


\* ------------------------------------------- the system of a cached path
\* The paths of an array of two elements are got, the array is pushed to and
\* its paths are replaced, MaxCacheMuts times at most, by one value that may
\* be undefined.
MaxCacheMuts == 3

CacheInit ==
    /\ heap = (O1 :> Obj("array", 2, (0 :> 1) @@ (1 :> 2)))
              @@ (O2 :> Obj("object", 0, EmptyMap)) @@ (Spare :> SpareObj)
    /\ paths = <<NewPath(O1, Null, Null)>>
    /\ last = NoCall
    /\ got = NoGot
    /\ iter = Idle
    /\ nmut = 0
    /\ nget = 0
    /\ visitors = <<>>
    /\ contexts = <<>>
    /\ log = <<>>
    /\ views = <<>>
    /\ nvis = 0

\* A call that ended in state S; the mutating calls are counted.
CacheCalled(op, p, index, args, S, muts) ==
    /\ nmut + muts <= MaxCacheMuts
    /\ Finish(S)
    /\ last' = Call(op, p, index, args, S)
    /\ nmut' = nmut + muts
    /\ UNCHANGED <<got, iter, nget>>
    /\ UNCHANGED visitorVars

CacheGet(p, k) == CacheCalled("get", p, k, <<>>, get(Cur, p, <<k>>), 0)

CachePush(p, args) == CacheCalled("push", p, Null, args, push(Cur, p, args), 1)

CacheReplace(p, args) ==
    CacheCalled("replace", p, Null, args, replace(Cur, p, args), 1)

CacheNext ==
    \/ \E p \in PathIds : \E k \in KeysOf(p) : CacheGet(p, k)
    \/ \E p \in PathIds : IsArrayPath(p) /\ CachePush(p, <<9>>)
    \/ \E p \in PathIds, x \in {Undef, 9} : HasParent(p) /\ CacheReplace(p, <<x>>)

CacheSpec == CacheInit /\ [][CacheNext]_vars


\* ------------------------------------------------- the system of a visitor
\* A visitor is constructed with its methods and visits a tree, MaxVisits
\* times at most; each call of visit is one step, from the call to its end.
MaxVisits == 2
MaxSteps == 2

N1 == ObjBase + 1
A2 == ObjBase + 2
N3 == ObjBase + 3
N4 == ObjBase + 4
N5 == ObjBase + 5
R6 == ObjBase + 6

Node(type, props) == Obj("object", 0, (KeyType :> type) @@ props)

\* The trees visited: a statement whose field a is an array of a binary
\* expression, whose operand a is an identifier, and an identifier; the
\* operand b of the binary expression is absent or present.  R6 is an
\* identifier out of the tree, for a handler to return.
VisitorHeaps ==
    { (N1 :> Node(TStatement, (KeyA :> A2)))
      @@ (A2 :> Obj("array", 2, (0 :> N3) @@ (1 :> N4)))
      @@ (N3 :> Node(TBinary, (KeyA :> N5) @@ b))
      @@ (N4 :> Node(TIdentifier, (KeyA :> 2)))
      @@ (N5 :> Node(TIdentifier, (KeyA :> 1)))
      @@ (R6 :> Node(TIdentifier, (KeyA :> 3)))
      : b \in {EmptyMap, (KeyB :> 7)} }

Steps == {"traverse", "visit", "abort", "abortCaught", "abortCancel", "throw",
          "reenter", "reenterCaught"}

\* The statements of a handler: MaxSteps at most, the ones before the last
\* among those that go on to the next.
StepLists ==
    UNION { { sl \in [1..n -> Steps] :
                \A i \in 1..(n - 1) : sl[i] \in {"traverse", "abortCaught", "abortCancel"} }
            : n \in 0..MaxSteps }

Results == {False, Undef, R6}

Scripts == {[steps |-> sl, ret |-> r] : sl \in StepLists, r \in Results}

\* The handlers that do what a handler usually does.
PlainScripts == {[steps |-> <<"traverse">>, ret |-> Undef],
                 [steps |-> <<>>, ret |-> False]}

DeclaredSets ==
    {{}, {TIdentifier}, {TExpression}, {TNode}, {TBinary, TExpression},
     {TStatement, TIdentifier}}

\* The methods of the visitors: for each set of declared handlers, one handler
\* is any script and the others are plain.
MethodTables ==
    UNION { { m \in [D -> Scripts] :
                D = {} \/ \E t \in D : \A u \in D \ {t} : m[u] \in PlainScripts }
            : D \in DeclaredSets }

Hooks == {"none", "throw", "reenter", "reenterCaught"}

VisitorInit ==
    /\ heap \in VisitorHeaps
    /\ paths = <<NewPath(N1, Null, Null)>>
    /\ visitors \in {<<NewVisitor(m, hook)>> : m \in MethodTables, hook \in Hooks}
    /\ contexts = <<>>
    /\ log = <<>>
    /\ views = <<>>
    /\ nvis = 0
    /\ last = NoCall
    /\ got = NoGot
    /\ iter = Idle
    /\ nmut = 0
    /\ nget = 0

VCur ==
    [heap |-> heap, paths |-> paths, err |-> FALSE, ret |-> <<>>, exc |-> NoExc,
     visitors |-> visitors, contexts |-> contexts, log |-> <<>>, views |-> views]

\* A call of visit that ended in state S.
Visited(root, isPath, S) ==
    /\ nvis < MaxVisits
    /\ heap' = S.heap
    /\ paths' = S.paths
    /\ visitors' = S.visitors
    /\ contexts' = S.contexts
    /\ log' = S.log
    /\ views' = S.views
    /\ nvis' = nvis + 1
    /\ last' = [op |-> "visit", path |-> RootPath(VCur, root, isPath),
                index |-> Outcome(S), args |-> <<root, isPath>>,
                ret |-> S.ret, err |-> S.err]
    /\ UNCHANGED pathVars

\* visitor.visit(path), for the NodePath of the root of the tree.
VisitPath == Visited(1, TRUE, visit(VCur, 1, 1, TRUE))

\* visitor.visit(node), for the root of the tree.
VisitNode == Visited(paths[1].value, FALSE, visit(VCur, 1, paths[1].value, FALSE))

VisitorNext == VisitPath \/ VisitNode

VisitorSpec == VisitorInit /\ [][VisitorNext]_vars


\* ------------------------------------- the system of a visitor's handlers
\* A visitor whose handlers cancel aborts, report changes, traverse with
\* visitors of their own and change the list they are visited from, visits a
\* statement whose field a is a list of an identifier, a literal and an
\* object expression; the field a of the identifier is a literal.  The node
\* Inserted is an identifier out of the tree, for a handler to insert.  One
\* more visitor has a reset hook that reports a change and throws.
H1 == ObjBase + 1
L2 == ObjBase + 2
E3 == ObjBase + 3
E4 == ObjBase + 4
E5 == ObjBase + 5
E8 == ObjBase + 8

HandlerHeap ==
    (H1 :> Node(TStatement, (KeyA :> L2)))
    @@ (L2 :> Obj("array", 3, (0 :> E3) @@ (1 :> E4) @@ (2 :> E5)))
    @@ (E3 :> Node(TIdentifier, (KeyA :> E8)))
    @@ (E4 :> Node(TLiteral, (KeyValue :> 2)))
    @@ (E5 :> Node(TObjectExpression, EmptyMap))
    @@ (E8 :> Node(TLiteral, (KeyValue :> 3)))
    @@ (Inserted :> Node(TIdentifier, (KeyA :> 4)))

HandlerSteps ==
    {"traverse", "abort", "abortCaught", "abortCancel", "abortRethrown", "throw",
     "report", "traverseReport", "traverseAbort", "visitReport", "visitAbort",
     "removeSelf", "pruneSelf", "removeNext", "removeAt", "insertAfter",
     "insertBefore"}

\* The statements after which a handler goes on to its next statement.
GoingOn == HandlerSteps \ {"abort", "abortRethrown", "throw", "traverseAbort", "visitAbort"}

HandlerStepLists ==
    UNION { { sl \in [1..n -> HandlerSteps] : \A i \in 1..(n - 1) : sl[i] \in GoingOn }
            : n \in 0..MaxSteps }

\* The handlers of identifiers, of literals and of object expressions.
IdentifierScripts ==
    {[steps |-> sl, ret |-> r] : sl \in HandlerStepLists, r \in {False, Undef}}

LiteralScripts ==
    {[steps |-> <<>>, ret |-> False], [steps |-> <<"traverse">>, ret |-> Undef],
     [steps |-> <<"removeSelf">>, ret |-> False], [steps |-> <<"throw">>, ret |-> Undef],
     [steps |-> <<"report">>, ret |-> False], [steps |-> <<"abort">>, ret |-> Undef]}

ObjectScripts ==
    {[steps |-> <<>>, ret |-> False], [steps |-> <<"throw">>, ret |-> Undef]}

HandlerTables ==
    {(TIdentifier :> a) @@ (TLiteral :> b) @@ (TObjectExpression :> c) :
        a \in IdentifierScripts, b \in LiteralScripts, c \in ObjectScripts}

HandlerInit ==
    /\ heap = HandlerHeap
    /\ paths = <<NewPath(H1, Null, Null)>>
    /\ visitors \in {<<NewVisitor(m, "none")>> : m \in HandlerTables}
                    \cup {<<NewVisitor(TLiteral :> [steps |-> <<>>, ret |-> False],
                                       "reportThrow")>>}
    /\ contexts = <<>>
    /\ log = <<>>
    /\ views = <<>>
    /\ nvis = 0
    /\ last = NoCall
    /\ got = NoGot
    /\ iter = Idle
    /\ nmut = 0
    /\ nget = 0

HandlerSpec == HandlerInit /\ [][VisitorNext]_vars

\* ------------------------------------------------- the system of NodePaths
\* A caller holds the NodePath of the root of a tree, takes child
\* paths, reads the views of the paths and replaces their values.  Here nget
\* counts the reads that compute a view, MaxReads at most; a read of a cached
\* view is always possible.
MaxReads == 2

MaxNodePaths == 4

NQ == ObjBase + 1
NM == ObjBase + 2
NA == ObjBase + 3
NE == ObjBase + 4
NR == ObjBase + 5

\* The tree: a statement whose field a is a statement (or an expression),
\* whose field a is an array of an identifier and a number.  NR is a
\* statement out of the tree that has the same array as its field a.
NodeHeaps ==
    { (NQ :> Node(TStatement, (KeyA :> NM)))
      @@ (NM :> Node(t, (KeyA :> NA)))
      @@ (NA :> Obj("array", 2, (0 :> NE) @@ (1 :> 7)))
      @@ (NE :> Node(TIdentifier, (KeyA :> 1)))
      @@ (NR :> Node(TStatement, (KeyA :> NA)))
      : t \in {TStatement, TExpression} }

\* The paths the caller starts with: root = new NodePath(tree),
\* root.get("a") and root.get("a", "a").
NodePaths ==
    <<[NewPath(NQ, Null, Null) EXCEPT !.childCache = (KeyA :> 2)],
      [NewPath(NM, 1, KeyA) EXCEPT !.childCache = (KeyA :> 3)],
      NewPath(NA, 2, KeyA)>>

NodeInit ==
    /\ heap \in NodeHeaps
    /\ paths = NodePaths
    /\ views = <<>>
    /\ last = NoCall
    /\ nmut = 0
    /\ got = NoGot
    /\ iter = Idle
    /\ nget = 0
    /\ visitors = <<>>
    /\ contexts = <<>>
    /\ log = <<>>
    /\ nvis = 0

NCur == [heap |-> heap, paths |-> paths, err |-> FALSE, ret |-> <<>>,
         views |-> views]

\* The fields and indices a value owns.
OwnKeys(p) ==
    IF IsObj(paths[p].value) THEN DOMAIN heap[paths[p].value].props \ {KeyType}
    ELSE {}

\* A call on path p that ended in state S; cached tells whether a view read
\* was an own property of the path at the call.
NodeCalled(op, p, cached, args, S) ==
    /\ Len(S.paths) <= MaxNodePaths
    /\ heap' = S.heap
    /\ paths' = S.paths
    /\ views' = S.views
    /\ last' = [op |-> op, path |-> p, index |-> cached, args |-> args,
                ret |-> S.ret, err |-> S.err]
    /\ nget' = IF op \in {"node", "parent", "scope"} /\ ~cached THEN nget + 1 ELSE nget
    /\ nget' <= MaxReads
    /\ UNCHANGED <<got, iter>>
    /\ UNCHANGED <<visitors, contexts, log, nvis>>

\* path.get(k)
NodeGet(p, k) ==
    /\ NodeCalled("get", p, FALSE, <<k>>, get(NCur, p, <<k>>))
    /\ UNCHANGED nmut

\* path.replace(x)
NodeReplace(p, args) ==
    /\ nmut < MaxMuts
    /\ NodeCalled("replace", p, FALSE, args, nodePathReplace(NCur, p, args))
    /\ nmut' = nmut + 1

\* path.node
ReadNode(p) ==
    /\ NodeCalled("node", p, ViewsOf(NCur, p).node # <<>>, <<>>, readNode(NCur, p))
    /\ UNCHANGED nmut

\* path.parent
ReadParent(p) ==
    /\ NodeCalled("parent", p, ViewsOf(NCur, p).parent # <<>>, <<>>,
                  readParent(NCur, p))
    /\ UNCHANGED nmut

\* path.scope
ReadScope(p) ==
    /\ NodeCalled("scope", p, ViewsOf(NCur, p).scope # <<>>, <<>>,
                  readScope(NCur, p))
    /\ UNCHANGED nmut

\* The values a caller replaces by: the statement NR, a number.
NodeArgs == {<<NR>>, <<5>>}

NodeNext ==
    \/ \E p \in PathIds : \E k \in OwnKeys(p) : NodeGet(p, k)
    \/ \E p \in PathIds, args \in NodeArgs : HasParent(p) /\ NodeReplace(p, args)
    \/ \E p \in PathIds : ReadNode(p)
    \/ \E p \in PathIds : ReadParent(p)
    \/ \E p \in PathIds : ReadScope(p)

NodeSpec == NodeInit /\ [][NodeNext]_vars


\* ------------------------------------------ the system of parenthesization
\* A caller holds the NodePaths of a syntax tree, one for every node and list
\* of the tree, and asks them needsParens, canBeFirstInStatement and
\* firstInStatement.  Here nget counts the calls, MaxCalls at most.
MaxCalls == 1

IdentifierNode == Node(TIdentifier, EmptyMap)

ArrayOf(elems) == Obj("array", Len(elems), [i \in 0..(Len(elems) - 1) |-> elems[i + 1]])

\* The innermost expressions of the trees, the node at LeafBase + 1: an
\* identifier, function() {}, {}, f(), function() { f() }.
LeafBase == ObjBase

LeafKinds == {"Identifier", "Function", "Object", "Call", "FunctionWithCall"}

Leaf(kind) ==
    LET b == LeafBase
    IN  IF kind = "Identifier" THEN (b + 1) :> IdentifierNode
        ELSE IF kind = "Object" THEN (b + 1) :> Node(TObjectExpression, EmptyMap)
        ELSE IF kind = "Call"
        THEN ((b + 1) :> Node(TCallExpression, (KeyCallee :> b + 2) @@ (KeyArguments :> b + 3)))
             @@ ((b + 2) :> IdentifierNode) @@ ((b + 3) :> ArrayOf(<<>>))
        ELSE IF kind = "Function"
        THEN ((b + 1) :> Node(TFunctionExpression, (KeyBody :> b + 2)))
             @@ ((b + 2) :> Node(TBlockStatement, (KeyBody :> b + 3)))
             @@ ((b + 3) :> ArrayOf(<<>>))
        ELSE ((b + 1) :> Node(TFunctionExpression, (KeyBody :> b + 2)))
             @@ ((b + 2) :> Node(TBlockStatement, (KeyBody :> b + 3)))
             @@ ((b + 3) :> ArrayOf(<<b + 4>>))
             @@ ((b + 4) :> Node(TExpressionStatement, (KeyExpression :> b + 5)))
             @@ ((b + 5) :> Node(TCallExpression, (KeyCallee :> b + 6) @@ (KeyArguments :> b + 7)))
             @@ ((b + 6) :> IdentifierNode) @@ ((b + 7) :> ArrayOf(<<>>))

\* The positions an expression is put in: the node of the position is
\* allocated at b + 1, an identifier and a list it needs after it.
Positions ==
    {"seqFirst", "seqSecond", "callee", "argument", "object", "property", "test",
     "left", "right", "postfix", "prefix", "newCallee", "newArgument"}

Around(b, child, position) ==
    LET other == b + 2
        list == b + 3
        with(node) == ((b + 1) :> node) @@ (other :> IdentifierNode)
        withList(node, elems) == with(node) @@ (list :> ArrayOf(elems))
    IN  IF position = "seqFirst"
        THEN withList(Node(TSequenceExpression, (KeyExpressions :> list)), <<child, other>>)
        ELSE IF position = "seqSecond"
        THEN withList(Node(TSequenceExpression, (KeyExpressions :> list)), <<other, child>>)
        ELSE IF position = "callee"
        THEN withList(Node(TCallExpression, (KeyCallee :> child) @@ (KeyArguments :> list)), <<>>)
        ELSE IF position = "argument"
        THEN withList(Node(TCallExpression, (KeyCallee :> other) @@ (KeyArguments :> list)),
                      <<child>>)
        ELSE IF position = "newCallee"
        THEN withList(Node(TNewExpression, (KeyCallee :> child) @@ (KeyArguments :> list)), <<>>)
        ELSE IF position = "newArgument"
        THEN withList(Node(TNewExpression, (KeyCallee :> other) @@ (KeyArguments :> list)),
                      <<child>>)
        ELSE IF position = "object"
        THEN with(Node(TMemberExpression, (KeyObject :> child) @@ (KeyProperty :> other)))
        ELSE IF position = "property"
        THEN with(Node(TMemberExpression, (KeyObject :> other) @@ (KeyProperty :> child)))
        ELSE IF position = "test"
        THEN with(Node(TConditionalExpression,
                       (KeyTest :> child) @@ (KeyConsequent :> other) @@ (KeyAlternate :> other)))
        ELSE IF position = "left"
        THEN with(Node(TBinaryExpression,
                       (KeyOperator :> Op("+")) @@ (KeyLeft :> child) @@ (KeyRight :> other)))
        ELSE IF position = "right"
        THEN with(Node(TBinaryExpression,
                       (KeyOperator :> Op("+")) @@ (KeyLeft :> other) @@ (KeyRight :> child)))
        ELSE IF position = "postfix"
        THEN (b + 1) :> unaryExpression(Op("++"), child, False)
        ELSE (b + 1) :> unaryExpression(Op("!"), child, True)

\* What the outermost expression is put in: nothing; an expression statement;
\* an expression statement that is the first or the second statement of the
\* block of a function, or the first statement of the block an if statement
\* has as its consequent.
Tops == {"none", "statement", "functionBlock", "functionBlockSecond", "ifBlock"}

Top(b, child, top) ==
    LET stmt == b + 1
        block == b + 2
        list == b + 3
        other == b + 4
        outer == b + 5
        statement == stmt :> Node(TExpressionStatement, (KeyExpression :> child))
        inBlock(elems) ==
            statement @@ (block :> Node(TBlockStatement, (KeyBody :> list)))
            @@ (list :> ArrayOf(elems))
            @@ (other :> Node(TExpressionStatement, (KeyExpression :> b + 6)))
            @@ ((b + 6) :> IdentifierNode)
    IN  IF top = "statement" THEN statement
        ELSE IF top = "functionBlock"
        THEN inBlock(<<stmt, other>>) @@ (outer :> Node(TFunctionExpression, (KeyBody :> block)))
        ELSE IF top = "functionBlockSecond"
        THEN inBlock(<<other, stmt>>) @@ (outer :> Node(TFunctionExpression, (KeyBody :> block)))
        ELSE inBlock(<<stmt, other>>)
             @@ (outer :> Node(TIfStatement,
                               (KeyTest :> b + 6) @@ (KeyConsequent :> block)))

TopRoot(b, child, top) ==
    IF top = "none" THEN child ELSE IF top = "statement" THEN b + 1 ELSE b + 5

Base1 == ObjBase + 10
Base2 == ObjBase + 20
BaseTop == ObjBase + 30

\* The tree of a leaf in up to two positions under a top.
ChainShapes ==
    {s \in [leaf : LeafKinds, inner : Positions \cup {"none"},
            outer : Positions \cup {"none"}, top : Tops] :
        /\ s.inner = "none" => s.outer = "none"
        /\ s.top \notin {"none", "statement"} => s.outer = "none"}

ChainTree(s) ==
    LET l == LeafBase + 1
        h1 == IF s.inner = "none" THEN Leaf(s.leaf)
              ELSE Around(Base1, l, s.inner) @@ Leaf(s.leaf)
        r1 == IF s.inner = "none" THEN l ELSE Base1 + 1
        h2 == IF s.outer = "none" THEN h1 ELSE Around(Base2, r1, s.outer) @@ h1
        r2 == IF s.outer = "none" THEN r1 ELSE Base2 + 1
    IN  [h |-> IF s.top = "none" THEN h2 ELSE Top(BaseTop, r2, s.top) @@ h2,
         root |-> TopRoot(BaseTop, r2, s.top)]

\* The trees of a binary or logical expression as an operand of another, in
\* an expression statement: the operators are of the table but for "**".
BinaryOperators == {"||", "+", "-", "*", "**"}

BinaryType(op) == IF op = "||" THEN TLogicalExpression ELSE TBinaryExpression

BinaryTree(po, no, side) ==
    LET stmt == ObjBase + 1
        q == ObjBase + 2
        c == ObjBase + 3
        x == ObjBase + 4
    IN  [h |-> (stmt :> Node(TExpressionStatement, (KeyExpression :> q)))
               @@ (q :> Node(BinaryType(po),
                             (KeyOperator :> Op(po))
                             @@ (KeyLeft :> IF side = KeyLeft THEN c ELSE x)
                             @@ (KeyRight :> IF side = KeyRight THEN c ELSE x)))
               @@ (c :> Node(BinaryType(no),
                             (KeyOperator :> Op(no)) @@ (KeyLeft :> ObjBase + 5)
                             @@ (KeyRight :> ObjBase + 6)))
               @@ (x :> IdentifierNode) @@ ((ObjBase + 5) :> IdentifierNode)
               @@ ((ObjBase + 6) :> IdentifierNode),
         root |-> stmt]

ParensTrees ==
    {ChainTree(s) : s \in ChainShapes}
    \cup {BinaryTree(po, no, side) :
            po \in BinaryOperators, no \in BinaryOperators, side \in {KeyLeft, KeyRight}}

\* The keys of a value that hold a record or a list.
ChildKeys(h, v) ==
    IF IsObj(v) THEN {k \in DOMAIN h[v].props : IsObj(h[v].props[k])} ELSE {}

\* path.get(k) for every key of ks.
RECURSIVE getEach(_, _, _)
getEach(S, p, ks) ==
    IF ks = <<>> THEN S ELSE getEach(getChildPath(S, p, Head(ks)), p, Tail(ks))

\* The paths of the whole tree: those from p on get their children.
RECURSIVE getAll(_, _)
getAll(S, p) ==
    IF p > Len(S.paths) THEN S
    ELSE getAll(getEach(S, p, KeySeq(ChildKeys(S.heap, S.paths[p].value))), p + 1)

\* root = new NodePath(tree) and the paths below it.
TreePaths(T) ==
    getAll([heap |-> T.h, paths |-> <<NewPath(T.root, Null, Null)>>, err |-> FALSE,
            ret |-> <<>>, views |-> <<>>], 1).paths

ParensInit ==
    /\ \E T \in ParensTrees : heap = T.h /\ paths = TreePaths(T)
    /\ views = <<>>
    /\ last = NoCall
    /\ nmut = 0
    /\ got = NoGot
    /\ iter = Idle
    /\ nget = 0
    /\ visitors = <<>>
    /\ contexts = <<>>
    /\ log = <<>>
    /\ nvis = 0

\* A call on path p that ended in state S.
ParensCalled(op, p, args, S) ==
    /\ nget < MaxCalls
    /\ nget' = nget + 1
    /\ heap' = S.heap
    /\ paths' = S.paths
    /\ views' = S.views
    /\ last' = [op |-> op, path |-> p, index |-> Null, args |-> args,
                ret |-> S.ret, err |-> S.err]
    /\ UNCHANGED <<got, iter, nmut>>
    /\ UNCHANGED <<visitors, contexts, log, nvis>>

\* path.needsParens(assumeExpressionContext)
NeedsParens(p, assumeExpressionContext) ==
    ParensCalled("needsParens", p, <<Bool(assumeExpressionContext)>>,
                 needsParens(NCur, p, assumeExpressionContext))

\* path.canBeFirstInStatement()
CanBeFirstInStatement(p) ==
    ParensCalled("canBeFirstInStatement", p, <<>>, canBeFirstInStatement(NCur, p))

\* path.firstInStatement()
FirstInStatement(p) ==
    ParensCalled("firstInStatement", p, <<>>, firstInStatement(NCur, p))

ParensNext ==
    \/ \E p \in PathIds, a \in BOOLEAN : NeedsParens(p, a)
    \/ \E p \in PathIds : CanBeFirstInStatement(p)
    \/ \E p \in PathIds : FirstInStatement(p)

ParensSpec == ParensInit /\ [][ParensNext]_vars

\* ------------------------------------------------------ the system of prune
\* A caller holds the NodePaths of a tree of statements, one for every node
\* and list of the tree, and prunes them; nmut counts the calls, MaxPrunes at
\* most.
MaxPrunes == 2

S1 == ObjBase + 1
S2 == ObjBase + 2
S3 == ObjBase + 3

\* The statements pruned in: var x; var x, y; f;
StatementKinds == {"declaration", "declarations", "expression"}

\* The statement of a kind, at b + 1.
Statement(b, kind) ==
    LET declarator(i) == Node(TVariableDeclarator, (KeyId :> i))
    IN  IF kind = "declaration"
        THEN ((b + 1) :> Node(TVariableDeclaration, (KeyDeclarations :> b + 2)))
             @@ ((b + 2) :> ArrayOf(<<b + 3>>))
             @@ ((b + 3) :> declarator(b + 4)) @@ ((b + 4) :> IdentifierNode)
        ELSE IF kind = "declarations"
        THEN ((b + 1) :> Node(TVariableDeclaration, (KeyDeclarations :> b + 2)))
             @@ ((b + 2) :> ArrayOf(<<b + 3, b + 5>>))
             @@ ((b + 3) :> declarator(b + 4)) @@ ((b + 4) :> IdentifierNode)
             @@ ((b + 5) :> declarator(b + 6)) @@ ((b + 6) :> IdentifierNode)
        ELSE ((b + 1) :> Node(TExpressionStatement, (KeyExpression :> b + 2)))
             @@ ((b + 2) :> IdentifierNode)

\* { s; t; } and { t; s; } for a statement s of a kind and the statement t.
BlockTree(kind, first) ==
    [h |-> (S1 :> Node(TBlockStatement, (KeyBody :> S2)))
           @@ (S2 :> ArrayOf(IF first THEN <<Base1 + 1, Base2 + 1>>
                             ELSE <<Base2 + 1, Base1 + 1>>))
           @@ Statement(Base1, kind) @@ Statement(Base2, "expression"),
     root |-> S1]

\* The tests of the if statements: t and !t.
TestKinds == {"plain", "negated"}

Test(b, kind) ==
    IF kind = "plain" THEN (b + 1) :> IdentifierNode
    ELSE ((b + 1) :> unaryExpression(Op("!"), b + 2, True)) @@ ((b + 2) :> IdentifierNode)

\* The alternates of the if statements: a statement, null, none.
AlternateKinds == {"statement", "null", "absent"}

\* { if (test) s else a } for a statement s of a kind.
IfTree(test, kind, alternate) ==
    [h |-> (S1 :> Node(TBlockStatement, (KeyBody :> S2)))
           @@ (S2 :> ArrayOf(<<S3>>))
           @@ (S3 :> Node(TIfStatement,
                          (KeyTest :> BaseTop + 1) @@ (KeyConsequent :> Base1 + 1)
                          @@ (IF alternate = "statement" THEN KeyAlternate :> Base2 + 1
                              ELSE IF alternate = "null" THEN KeyAlternate :> Null
                              ELSE EmptyMap)))
           @@ Test(BaseTop, test) @@ Statement(Base1, kind)
           @@ (IF alternate = "statement" THEN Statement(Base2, "expression") ELSE EmptyMap),
     root |-> S1]

\* A statement alone, with no tree around it.
LoneTree(kind) == [h |-> Statement(ObjBase, kind), root |-> ObjBase + 1]

PruneTrees ==
    {BlockTree(kind, first) : kind \in StatementKinds, first \in BOOLEAN}
    \cup {IfTree(test, kind, alternate) :
            test \in TestKinds, kind \in StatementKinds, alternate \in AlternateKinds}
    \cup {LoneTree(kind) : kind \in StatementKinds}

PruneInit ==
    /\ \E T \in PruneTrees : heap = T.h /\ paths = TreePaths(T)
    /\ views = <<>>
    /\ last = NoCall
    /\ nmut = 0
    /\ got = NoGot
    /\ iter = Idle
    /\ nget = 0
    /\ visitors = <<>>
    /\ contexts = <<>>
    /\ log = <<>>
    /\ nvis = 0

\* A call of prune on path p that ended in state S.
Pruned(p, S) ==
    /\ heap' = S.heap
    /\ paths' = S.paths
    /\ views' = S.views
    /\ last' = [op |-> "prune", path |-> p, index |-> Null, args |-> <<>>,
                ret |-> S.ret, err |-> S.err]
    /\ UNCHANGED <<got, iter, nget>>
    /\ UNCHANGED <<visitors, contexts, log, nvis>>

\* path.prune()
Prune(p) ==
    /\ nmut < MaxPrunes
    /\ nmut' = nmut + 1
    /\ Pruned(p, prune(NCur, p))

PruneNext == \E p \in PathIds : Prune(p)

PruneSpec == PruneInit /\ [][PruneNext]_vars

\* ------------------------------------------------------------- properties
\* The state after the step, and the call the step made.
Post == St(heap', paths')

CallPath == last'.path

CallArgs == last'.args

Called(op) == last'.op = op

\* A cursor that is in the tree: it has a parent whose value is an array or a
\* record, its name is a slot of that value (an index below the length, for an
\* array) and the slot holds the cursor's value.
Live(S, p) ==
    LET pp == S.paths[p].parentPath
        pv == S.paths[pp].value
        nm == S.paths[p].name
    IN  /\ pp # Null
        /\ IsObj(pv)
        /\ S.heap[pv].kind = "array" => nm \in 0..(S.heap[pv].length - 1)
        /\ GetProp(S.heap, pv, nm) = S.paths[p].value

ParentValue(S, p) == S.paths[S.paths[p].parentPath].value

InArray(S, p) == Live(S, p) /\ IsArrayObj(S.heap, ParentValue(S, p))

\* Slot k of object o1 is slot j of object o2: both absent, or both present
\* with the same value.
SameSlot(o1, k, o2, j) ==
    /\ (k \in DOMAIN o1.props) = (j \in DOMAIN o2.props)
    /\ k \in DOMAIN o1.props => o1.props[k] = o2.props[j]

\* C1: two calls p.get(k) with only reads in between (got is the earlier one,
\* last the later one) return the same cursor.
C1_GetTwice ==
    (last.op = "get" /\ got # NoGot /\ got[1] = last.path /\ got[2] = last.index)
    => (~last.err /\ last.ret = <<got[3]>>)

C1_Witness ==
    /\ last.op = "get" /\ got # NoGot
    /\ got[1] = last.path /\ got[2] = last.index /\ last.ret = <<got[3]>>
    /\ nmut > 0 /\ iter.count > 0

\* C2: p.replace(x) on a cursor in the tree returns <<p>>; the parent's slot
\* p.name and p.value hold x, an array parent keeps its length and its other
\* elements, and parent.get(p.name) is still p.
C2_ReplaceOne ==
    [][(Called("replace") /\ Len(CallArgs) = 1 /\ Live(Cur, CallPath))
       => LET p == CallPath
              pp == paths[p].parentPath
              pv == paths[pp].value
              nm == paths[p].name
              x == CallArgs[1]
          IN  /\ ~last'.err
              /\ last'.ret = <<p>>
              /\ paths'[p].name = nm
              /\ nm \in DOMAIN heap'[pv].props /\ heap'[pv].props[nm] = x
              /\ paths'[p].value = x
              /\ heap'[pv].length = heap[pv].length
              /\ \A k \in (DOMAIN heap[pv].props \cup DOMAIN heap'[pv].props) \ {nm} :
                    SameSlot(heap'[pv], k, heap[pv], k)
              /\ Lookup(Post, pp, nm) = p]_vars

C2_Witness ==
    /\ last.op = "replace" /\ Len(last.args) = 1 /\ ~last.err
    /\ last.ret = <<last.path>>
    /\ InArray(Cur, last.path)
    /\ heap[ParentValue(Cur, last.path)].length > 1
    /\ nmut > 1

\* C3: p.replace() on a cursor in the tree returns the empty list; an array
\* parent loses the element at p's index and keeps the others in order, a
\* record parent loses the key p.name; p.value is undefined afterwards.
C3_ReplaceNone ==
    [][(Called("replace") /\ Len(CallArgs) = 0 /\ Live(Cur, CallPath))
       => LET p == CallPath
              pv == ParentValue(Cur, p)
              nm == paths[p].name
              L == heap[pv].length
          IN  /\ ~last'.err
              /\ last'.ret = <<>>
              /\ paths'[p].value = Undef
              /\ IF heap[pv].kind = "array"
                 THEN /\ heap'[pv].length = L - 1
                      /\ \A k \in 0..(L - 2) :
                            SameSlot(heap'[pv], k, heap[pv],
                                     IF k < nm THEN k ELSE k + 1)
                 ELSE /\ nm \notin DOMAIN heap'[pv].props
                      /\ \A k \in DOMAIN heap[pv].props \ {nm} :
                            SameSlot(heap'[pv], k, heap[pv], k)]_vars

C3_Witness ==
    /\ last.op = "replace" /\ Len(last.args) = 0 /\ ~last.err
    /\ paths[last.path].value = Undef
    /\ IsArrayObj(heap, ParentValue(Cur, last.path))
    /\ heap[ParentValue(Cur, last.path)].length > 1
    /\ last.path \notin {paths[paths[last.path].parentPath].childCache[k] :
                           k \in DOMAIN paths[paths[last.path].parentPath].childCache}

\* The cursors an array-valued cursor a returned for the present indices in J
\* before the step are the cursors it returns for those indices plus d after
\* it, under the new names.
Reindexed(a, J, d) ==
    \A j \in J :
       (HasOwn(heap, paths[a].value, j) /\ Lookup(Cur, a, j) # Null)
       => LET c == Lookup(Cur, a, j)
          IN  /\ Lookup(Post, a, j + d) = c
              /\ paths'[c].name = j + d
              /\ paths'[c].value = paths[c].value

\* C4 as claimed: after p.replace() at index i of an array, every cursor the
\* parent returned for an index j > i, j = i+1 included, is the cursor it
\* returns for j-1, with name j-1 and the same value.
C4_ShiftedDown ==
    [][(Called("replace") /\ Len(CallArgs) = 0 /\ InArray(Cur, CallPath))
       => LET p == CallPath
              pp == paths[p].parentPath
              i == paths[p].name
              L == heap[paths[pp].value].length
          IN  Reindexed(pp, (i + 1)..(L - 1), -1)]_vars


\* C5: p.replace(v1..vN), N >= 2, on a cursor at index i of an array of
\* length L leaves length L+N-1 with v1..vN at i..i+N-1 and the other elements
\* in order; it returns N cursors, the k-th named i+k-1 with value vk, the
\* first being p; a cursor the parent returned for j > i is the cursor it
\* returns for j+N-1, under that name.
C5_ReplaceMany ==
    [][(Called("replace") /\ Len(CallArgs) >= 2 /\ InArray(Cur, CallPath))
       => LET p == CallPath
              pp == paths[p].parentPath
              pv == paths[pp].value
              i == paths[p].name
              L == heap[pv].length
              N == Len(CallArgs)
          IN  /\ ~last'.err
              /\ heap'[pv].length = L + N - 1
              /\ \A k \in 0..(L + N - 2) :
                    IF k >= i /\ k < i + N
                    THEN k \in DOMAIN heap'[pv].props
                         /\ heap'[pv].props[k] = CallArgs[k - i + 1]
                    ELSE SameSlot(heap'[pv], k, heap[pv],
                                  IF k < i THEN k ELSE k - N + 1)
              /\ Len(last'.ret) = N
              /\ \A k \in 1..N : /\ paths'[last'.ret[k]].name = i + k - 1
                                 /\ paths'[last'.ret[k]].value = CallArgs[k]
                                 /\ paths'[last'.ret[k]].parentPath = pp
              /\ last'.ret[1] = p
              /\ Reindexed(pp, (i + 1)..(L - 1), N - 1)]_vars

C5_Witness ==
    /\ last.op = "replace" /\ Len(last.args) >= 2 /\ ~last.err
    /\ last.ret[1] = last.path
    /\ paths[last.path].name = 0
    /\ \E c \in PathIds :
          /\ paths[c].parentPath = paths[last.path].parentPath
          /\ paths[c].name >= Len(last.args) + 1
          /\ Lookup(Cur, paths[c].parentPath, paths[c].name) = c

\* C6 as claimed: p.replace(v1..vN), N >= 2, on any cursor whose parent value
\* is a record raises an error and leaves the record and p.value as they
\* were.
C6_RecordUntouched ==
    [][(Called("replace") /\ Len(CallArgs) >= 2
        /\ paths[CallPath].parentPath # Null
        /\ IsObj(ParentValue(Cur, CallPath))
        /\ heap[ParentValue(Cur, CallPath)].kind = "object")
       => /\ last'.err
          /\ heap'[ParentValue(Cur, CallPath)] = heap[ParentValue(Cur, CallPath)]
          /\ paths'[CallPath].value = paths[CallPath].value]_vars

\* C6 amended: the call raises an error and leaves p.value and every slot
\* of the record but p.name as they were; the slot p.name holds p.value
\* afterwards, so the record is unchanged when p was in the tree.
C6_RecordRepaired ==
    [][(Called("replace") /\ Len(CallArgs) >= 2
        /\ paths[CallPath].parentPath # Null
        /\ IsObj(ParentValue(Cur, CallPath))
        /\ heap[ParentValue(Cur, CallPath)].kind = "object")
       => LET p == CallPath
              pv == ParentValue(Cur, p)
              nm == paths[p].name
          IN  /\ last'.err
              /\ paths'[p].value = paths[p].value
              /\ paths'[p].name = nm
              /\ \A k \in (DOMAIN heap[pv].props \cup DOMAIN heap'[pv].props) \ {nm} :
                    SameSlot(heap'[pv], k, heap[pv], k)
              /\ GetProp(heap', pv, nm) = paths[p].value
              /\ Live(Cur, p) => heap'[pv] = heap[pv]]_vars

C6_Witness ==
    /\ last.op = "replace" /\ Len(last.args) >= 2 /\ last.err
    /\ paths[last.path].parentPath # Null
    /\ IsObj(ParentValue(Cur, last.path))
    /\ heap[ParentValue(Cur, last.path)].kind = "object"
    /\ ParentValue(Cur, last.path) = Spare
    /\ heap[Spare] # SpareObj

\* C7: a.insertAt(i, v1..vn), n >= 1 and 0 <= i <= L, keeps the cursor of
\* every index below i, with its name and value, and moves the cursor of every
\* index j >= i to j+n, under that name.
C7_InsertAtCursors ==
    [][(Called("insertAt") /\ Len(CallArgs) >= 1
        /\ IsArrayObj(heap, paths[CallPath].value)
        /\ last'.index \in 0..heap[paths[CallPath].value].length)
       => LET a == CallPath
              i == last'.index
              L == heap[paths[a].value].length
          IN  /\ ~last'.err
              /\ \A j \in 0..(i - 1) :
                    Lookup(Cur, a, j) # Null
                    => LET c == Lookup(Cur, a, j)
                       IN  /\ Lookup(Post, a, j) = c
                           /\ paths'[c].name = j
                           /\ paths'[c].value = paths[c].value
              /\ Reindexed(a, i..(L - 1), Len(CallArgs))]_vars

C7_Witness ==
    /\ last.op = "insertAt" /\ Len(last.args) >= 2 /\ ~last.err
    /\ last.index = 1
    /\ nget > 0
    /\ Lookup(Cur, last.path, 0) # Null
    /\ Lookup(Cur, last.path, 1 + Len(last.args)) # Null
    /\ paths[Lookup(Cur, last.path, 1 + Len(last.args))].name = 1 + Len(last.args)

\* A sequence with the values vs inserted before position i (from 0).
InsertSeq(es, i, vs) ==
    [k \in 1..(Len(es) + Len(vs)) |->
        IF k <= i THEN es[k]
        ELSE IF k <= i + Len(vs) THEN vs[k - i]
        ELSE es[k - Len(vs)]]

Dense(h, v) == \A k \in 0..(h[v].length - 1) : k \in DOMAIN h[v].props

\* C8 as claimed: a.insertAt(i, v1..vn), n >= 1 and i <= L, on an array of
\* any length, the empty one included, leaves the original sequence with
\* v1..vn inserted at max(i, 0).
C8_InsertAtValue ==
    [][(Called("insertAt") /\ Len(CallArgs) >= 1
        /\ IsArrayObj(heap, paths[CallPath].value)
        /\ Dense(heap, paths[CallPath].value)
        /\ last'.index <= heap[paths[CallPath].value].length)
       => LET v == paths[CallPath].value
          IN  /\ ~last'.err
              /\ Dense(heap', v)
              /\ ArrayElems(heap', v)
                 = InsertSeq(ArrayElems(heap, v), Max(last'.index, 0), CallArgs)]_vars


\* The elements of a finite set of integers in ascending order.
RECURSIVE Ascending(_)
Ascending(J) ==
    IF J = {} THEN <<>>
    ELSE LET m == CHOOSE k \in J : \A j \in J : k <= j
         IN  <<m>> \o Ascending(J \ {m})

\* C9: each invokes the callback once for every index present when it was
\* called, in ascending order, with the cursor get returned for the index at
\* that moment, whatever the callbacks do to the array.
C9_EachSnapshot ==
    (iter.active \/ last.op = "eachEnd")
    => LET exp == Ascending(iter.present)
           done == {j \in iter.present : j < iter.i}
       IN  /\ DOMAIN iter.snapshot = iter.present
           /\ \A j \in iter.present :
                 /\ iter.snapshot[j] # Null
                 /\ paths[iter.snapshot[j]].parentPath = iter.path
           /\ Len(iter.log) = Cardinality(done)
           /\ \A k \in 1..Len(iter.log) :
                 iter.log[k] = <<exp[k], iter.snapshot[exp[k]]>>
           /\ ~iter.active => Len(iter.log) = Len(exp)

C9_Witness ==
    /\ last.op = "eachEnd" /\ iter.mutated
    /\ Len(iter.log) >= 2
    /\ IsArrayObj(heap, paths[iter.path].value)
    /\ heap[paths[iter.path].value].length < iter.len

\* C10: unshift moves the cursor of index j to j+n, shift on a non-empty
\* array moves the cursor of index j >= 1 to j-1, push and pop keep the
\* cursors of the surviving indices; after pop and then push of a different
\* value, get of the last index returns a cursor holding the pushed value.
C10_ArrayPrimitives ==
    [][(last'.op \in {"unshift", "shift", "push", "pop"}
        /\ IsArrayObj(heap, paths[CallPath].value))
       => LET a == CallPath
              L == heap[paths[a].value].length
              G == getChildPath(Post, a, L)
          IN  /\ ~last'.err
              /\ Called("unshift") => Reindexed(a, 0..(L - 1), Len(CallArgs))
              /\ Called("shift") => Reindexed(a, 1..(L - 1), -1)
              /\ Called("push") => Reindexed(a, 0..(L - 1), 0)
              /\ Called("pop") => Reindexed(a, 0..(L - 2), 0)
              /\ (Called("push") /\ last.op = "pop" /\ last.path = a
                  /\ Len(CallArgs) >= 1 /\ CallArgs[1] # last.ret[1])
                 => /\ ~G.err
                    /\ G.paths[G.ret[1]].value = CallArgs[1]
                    /\ G.paths[G.ret[1]].name = L]_vars

C10_Witness ==
    /\ last.op = "unshift" /\ Len(last.args) >= 2 /\ ~last.err
    /\ nget > 0 /\ nmut > 1
    /\ \E c \in PathIds :
          /\ paths[c].parentPath = last.path
          /\ paths[c].name > Len(last.args)
          /\ Lookup(Cur, last.path, paths[c].name) = c

\* --------------------------------------------------------------- PathVisitor
\* The positions of the log, and those where a call of visit is recorded.
LogIds == 1..Len(log)

IsEvent(i, kind) == i \in LogIds /\ log[i][1] = kind

\* The call of visit recorded at i found the visitor visiting.
Reentered(i) == IsEvent(i, "visit") /\ log[i][3][1]

\* C11: a call of visit on a visitor that is visiting (from a handler or from
\* the reset hook) raises an error at once: the next thing that happens is
\* the end of that call with the reentrancy error, no reset hook and no
\* handler having run, and the visiting, abort-requested and change-reported
\* flags are what the call found.
C11_ReentrantVisit ==
    \A i \in LogIds :
        Reentered(i) =>
            /\ i < Len(log)
            /\ log[i + 1] = <<"visitEnd", log[i][2], "reentrant", log[i][3]>>

\* A handler that has requested an abort and caught it calls visit.
C11_Witness ==
    /\ \E i, j \in LogIds :
          /\ j < i
          /\ IsEvent(j, "handler")
          /\ Reentered(i)
          /\ log[i][3] = <<TRUE, TRUE, FALSE>>
          /\ log[i + 1][4] = <<TRUE, TRUE, FALSE>>
    /\ last.op = "visit"

\* C12: whenever a call of visit made on an idle visitor has ended, by return,
\* by abort or by an exception raised anywhere inside it, the visitor is idle
\* again: its visiting flag is false, so that the next call passes the guard.
C12_IdleAfterVisit ==
    (last.op = "visit" /\ nvis = 1) => ~visitors[1].visiting

\* The abort recorded at i was not caught by the handler that called it.
UncaughtAbort(i) == IsEvent(i, "abort") /\ ~IsEvent(i + 1, "caught")

\* C13: when abort() is called in a handler and the signal is not caught,
\* the call of visit does not throw: it returns the value the root path has
\* at the end, no handler is invoked after the abort, and the visitor is idle.
C13_AbortReturnsRoot ==
    \A i \in LogIds :
        UncaughtAbort(i) =>
            /\ last.op = "visit"
            /\ ~last.err
            /\ last.ret = <<paths[last.path].value>>
            /\ \A j \in LogIds : j > i => ~IsEvent(j, "handler")
            /\ ~visitors[1].visiting

\* A handler aborts the visit of a tree that the traversal has changed
\* before (the absent operand of the binary expression is now null), and
\* another handler was invoked before.
C13_Witness ==
    /\ \E i, j, k \in LogIds :
          /\ j < k /\ k < i
          /\ IsEvent(j, "handler") /\ IsEvent(k, "handler")
          /\ UncaughtAbort(i)
    /\ HasOwn(heap, N3, KeyB) /\ heap[N3].props[KeyB] = Null
    /\ last.ret = <<N1>>
    /\ nvis = 1

\* C14: an exception other than the abort request that a handler throws
\* leaves the call of visit as that exception, whether or not abort() was
\* called earlier in the visit.
C14_ErrorsPropagate ==
    (last.op = "visit" /\ \E i \in LogIds : IsEvent(i, "throw"))
        => (last.err /\ last.index = "error")

\* The handler whose return is recorded at i returned a value to replace the
\* node of a path that has a slot in the tree.
Replaces(i) ==
    /\ IsEvent(i, "returned")
    /\ log[i][5] \notin {False, Undef}
    /\ paths[log[i][3]].parentPath # Null

\* The end of the invocation whose handler's return is recorded at i.
EndOf(i) ==
    CHOOSE j \in LogIds :
        /\ j > i /\ IsEvent(j, "invoked") /\ log[j][2] = log[i][2]
        /\ \A k \in LogIds :
              (k > i /\ k < j) => ~(IsEvent(k, "invoked") /\ log[k][2] = log[i][2])

\* The traversals of the children of path p recorded between i and j.
Traversals(p, i, j) ==
    {k \in LogIds : k > i /\ k < j /\ IsEvent(k, "children") /\ log[k][3] = p}

\* The handler of method name m has called traverse or visit when it returns.
CalledTraverse(m) ==
    \E k \in DOMAIN visitors[1].methods[m].steps :
        visitors[1].methods[m].steps[k] \in {"traverse", "visit"}

\* The invocation whose handler's return is recorded at i completes with the
\* same path, whose value and slot hold the value returned, and without a
\* protocol error; the engine has traversed the children of the value once
\* if engineTraverses, and has done nothing after the replacement otherwise.
ReplacedAt(i, engineTraverses) ==
    /\ log[EndOf(i)][3] = log[i][3]
    /\ log[EndOf(i)][4] = "return"
    /\ log[EndOf(i)][5] = log[i][5]
    /\ log[EndOf(i)][6] = log[i][5]
    /\ IF engineTraverses
       THEN /\ IsEvent(i + 1, "children") /\ log[i + 1][3] = log[i][3]
            /\ Cardinality(Traversals(log[i][3], i, EndOf(i))) = 1
       ELSE EndOf(i) = i + 1

CalledContext(m) ==
    \E k \in DOMAIN visitors[1].methods[m].steps :
        visitors[1].methods[m].steps[k]
            \in {"traverse", "visit", "abort", "abortCaught", "abortCancel"}

\* C16: a handler that returns undefined without having called traverse,
\* visit or abort of its context has its invocation end with the protocol
\* error, at once; a handler that returns false, or undefined after a call of
\* traverse or visit, has its invocation end without that error.
C16_ProtocolEnforced ==
    \A i \in LogIds :
        IsEvent(i, "returned") =>
            /\ (log[i][5] = Undef /\ ~CalledContext(log[i][4]))
                  => (EndOf(i) = i + 1 /\ log[i + 1][4] = "protocol")
            /\ (log[i][5] = False \/ (log[i][5] = Undef /\ CalledTraverse(log[i][4])))
                  => (EndOf(i) = i + 1 /\ log[i + 1][4] = "return")

\* A handler that called nothing of its context returned undefined and the
\* visit ended with the protocol error.
C16_Witness ==
    /\ \E i \in LogIds :
          /\ IsEvent(i, "returned")
          /\ log[i][5] = Undef /\ ~CalledContext(log[i][4])
          /\ log[i + 1][4] = "protocol"
    /\ last.op = "visit" /\ last.err /\ last.index = "protocol"

\* The type names the visitor declares a handler for.
Declared == DOMAIN visitors[1].methods

\* The positions in the supertypes of type t, itself first, of the types with
\* a declared handler.
DeclaredAbove(t) == {j \in DOMAIN Supertypes(t) : Supertypes(t)[j] \in Declared}

\* The type whose handler is to be invoked for a node of type t: t if its
\* handler is declared, the nearest supertype with one otherwise.
NearestDeclared(t) ==
    Supertypes(t)[CHOOSE j \in DeclaredAbove(t) : \A k \in DeclaredAbove(t) : j <= k]

\* C17: the visit of a node of type T begins with exactly one of: the handler
\* declared for T; without one, the handler of the nearest supertype of T
\* that has one; without any, the generic traversal of the node's children.
\* The handler is invoked on the context bound to the node's path, with that
\* path.
C17_Dispatch ==
    \A i \in LogIds :
        (IsEvent(i, "node") /\ log[i][4] # Null) =>
            /\ i < Len(log)
            /\ IF DeclaredAbove(log[i][4]) # {}
               THEN /\ IsEvent(i + 1, "handler")
                    /\ log[i + 1][2] = log[i][2]
                    /\ log[i + 1][3] = NearestDeclared(log[i][4])
                    /\ log[i + 1][4] = log[i][3]
               ELSE log[i + 1] = <<"children", log[i][2], log[i][3]>>

\* The three cases in one visit: the binary expression has its own handler,
\* an identifier has the handler of Expression, and the statement has none.
C17_Witness ==
    /\ Declared = {TBinary, TExpression}
    /\ \E i, j, k \in LogIds :
          /\ IsEvent(i, "node") /\ log[i][4] = TStatement
          /\ IsEvent(i + 1, "children")
          /\ IsEvent(j, "node") /\ log[j][4] = TBinary
          /\ IsEvent(j + 1, "handler") /\ log[j + 1][3] = TBinary
          /\ IsEvent(k, "node") /\ log[k][4] = TIdentifier
          /\ IsEvent(k + 1, "handler") /\ log[k + 1][3] = TExpression

\* The objects of the tree under the root.
TreeObjects == {N1, A2, N3, N4, N5}

\* C18: a call of visit on an idle visitor that declares no handler (and
\* keeps the reset hook it was born with) invokes no handler, visits every
\* node and array of the tree, returns the root, and leaves every object of
\* the tree with the fields and the values it had, a node that lacks a
\* declared field included.
C18_NoHandlerNoChange ==
    [][(Declared = {} /\ visitors[1].reset = "none" /\ ~visitors[1].visiting)
          => /\ \A i \in DOMAIN log' : log'[i][1] # "handler"
             /\ \A o \in TreeObjects :
                   \E i \in DOMAIN log' :
                       log'[i][1] = "node" /\ paths'[log'[i][3]].value = o
             /\ ~last'.err /\ last'.ret = <<N1>>
             /\ \A o \in TreeObjects : heap'[o] = heap[o]]_vars

\* ------------------------------------------------------------------ NodePath
\* The path p and its ancestors, from p to the root.
RECURSIVE Chain(_)
Chain(p) == IF p = Null THEN <<>> ELSE <<p>> \o Chain(paths[p].parentPath)

HoldsNode(q) == IsNode(heap, paths[q].value)

HoldsScope(q) == HoldsNode(q) /\ isEstablishedBy(heap, paths[q].value)

\* The first path of the sequence qs that holds a node, or null.
FirstNode(qs) ==
    IF \E i \in DOMAIN qs : HoldsNode(qs[i])
    THEN qs[CHOOSE i \in DOMAIN qs :
                HoldsNode(qs[i]) /\ \A j \in 1..(i - 1) : ~HoldsNode(qs[j])]
    ELSE Null

\* The node view as the tree gives it: the value of the nearest of p and its
\* ancestors that holds a node.
TreeNode(p) ==
    IF FirstNode(Chain(p)) = Null THEN Null ELSE paths[FirstNode(Chain(p))].value

\* The parent view as the tree gives it: the nearest proper ancestor that
\* holds a node and is not the path that supplies the node view.
TreeParent(p) ==
    FirstNode(SelectSeq(Tail(Chain(p)), LAMBDA q : q # FirstNode(Chain(p))))

\* The path whose scope the tree gives p: the nearest of p and its ancestors
\* that holds a node establishing a scope.
TreeScopePath(p) ==
    FirstNode(SelectSeq(Chain(p), HoldsScope))

Views == {"node", "parent", "scope"}

\* The result of the read that ends in the next state is what the tree gives.
ReadsTree ==
    /\ last'.op = "node" => last'.ret = <<TreeNode(last'.path)>>
    /\ last'.op = "parent" => last'.ret = <<TreeParent(last'.path)>>
    /\ last'.op = "scope" =>
          IF TreeScopePath(last'.path) = Null THEN last'.ret = <<Null>>
          ELSE /\ last'.ret[1] \in DOMAIN heap'
               /\ heap'[last'.ret[1]].props[KeyA] = TreeScopePath(last'.path)

\* C19: the read of a view of p that follows a call p.replace(...) yields
\* what the tree gives at the read, and a read of a view that p has cached
\* yields the cached value.
C19_ViewsFollowReplace ==
    [][/\ (last.op = "replace" /\ ~last.err /\ last'.op \in Views
           /\ last'.path = last.path)
          => ReadsTree
       /\ (last'.op \in Views /\ last'.index)
          => last'.ret = ViewsOf(NCur, last'.path)[last'.op]]_vars

\* C20: the parent view computed for a path p is the nearest proper ancestor
\* that holds a node and is not the path supplying the node view of p, or
\* null: for a path that holds a node the nearest ancestor that holds one,
\* for any other path the ancestor next above its nearest enclosing node's
\* path that holds one.
C20_ParentView ==
    (last.op = "parent" /\ ~last.index) =>
        /\ last.ret = <<TreeParent(last.path)>>
        /\ HoldsNode(last.path) => last.ret = <<FirstNode(Tail(Chain(last.path)))>>
        /\ (~HoldsNode(last.path) /\ FirstNode(Chain(last.path)) # Null) =>
              last.ret = <<FirstNode(Tail(Chain(FirstNode(Chain(last.path)))))>>

\* The parent of the path of the array is computed: it is the path of the
\* root, above the path of the node that has the array as a field.
C20_Witness ==
    /\ last.op = "parent" /\ ~last.index
    /\ ~HoldsNode(last.path)
    /\ paths[last.path].parentPath # Null
    /\ HoldsNode(paths[last.path].parentPath)
    /\ last.ret # <<Null>>
    /\ last.ret # <<paths[last.path].parentPath>>
    /\ HoldsNode(last.ret[1])

\* ------------------------------------------------------------- parentheses
\* The path of the nearest enclosing node of the node of path p, or null.
Encloser(p) == FirstNode(Tail(Chain(p)))

TypeAt(q) == GetProp(heap, paths[q].value, KeyType)

OperatorAt(q) == GetProp(heap, paths[q].value, KeyOperator)

BinaryKinds == {TBinaryExpression, TLogicalExpression}

\* The tier of an operator of the table, the lowest tier being 1.
TierOf(op) == CHOOSE i \in DOMAIN Tiers : \E j \in DOMAIN Tiers[i] : Op(Tiers[i][j]) = op

InTable(op) == \E i \in DOMAIN Tiers : \E j \in DOMAIN Tiers[i] : Op(Tiers[i][j]) = op

\* needsParens was asked of a binary or logical node whose nearest enclosing
\* node is binary or logical, both operators being of the table.
BinaryInBinaryCall ==
    /\ last.op = "needsParens"
    /\ HoldsNode(last.path) /\ TypeAt(last.path) \in BinaryKinds
    /\ Encloser(last.path) # Null
    /\ TypeAt(Encloser(last.path)) \in BinaryKinds
    /\ InTable(OperatorAt(last.path)) /\ InTable(OperatorAt(Encloser(last.path)))

\* The node of path p is the right operand of its enclosing node.
IsRightOperand(p) ==
    /\ paths[p].parentPath = Encloser(p)
    /\ paths[p].name = KeyRight
    /\ GetProp(heap, paths[Encloser(p)].value, KeyRight) = paths[p].value

\* C21: for a binary or logical node under a binary or logical enclosing
\* node, both operators in the precedence table, needsParens returns true
\* exactly when the tier of the node is lower than the tier of the enclosing
\* node, or the tiers are equal and the node is the right operand; so the
\* right operand b * c of a + b * c needs none and the left operand a + b of
\* (a + b) * c needs them.
C21_BinaryTiers ==
    BinaryInBinaryCall =>
        /\ ~last.err
        /\ last.ret =
             <<Bool(\/ TierOf(OperatorAt(last.path)) < TierOf(OperatorAt(Encloser(last.path)))
                    \/ /\ TierOf(OperatorAt(last.path)) = TierOf(OperatorAt(Encloser(last.path)))
                       /\ IsRightOperand(last.path))>>
        /\ (/\ OperatorAt(last.path) = Op("*")
            /\ OperatorAt(Encloser(last.path)) = Op("+")
            /\ IsRightOperand(last.path)) => last.ret = <<False>>
        /\ (/\ OperatorAt(last.path) = Op("+")
            /\ OperatorAt(Encloser(last.path)) = Op("*")
            /\ ~IsRightOperand(last.path)) => last.ret = <<True>>

\* needsParens was asked of the left operand a - b of (a - b) + c, which is of
\* the tier of its enclosing node, and answered false.
C21_Witness ==
    /\ BinaryInBinaryCall
    /\ OperatorAt(last.path) = Op("-")
    /\ OperatorAt(Encloser(last.path)) = Op("+")
    /\ paths[last.path].name = KeyLeft
    /\ last.ret = <<False>>

\* The kinds a rule of needsParens decides before the rule of the callee of
\* a new expression.
DecidedKinds ==
    {TIdentifier, TUnaryExpression, TSpreadElement, TSpreadProperty,
     TBinaryExpression, TLogicalExpression, TSequenceExpression, TYieldExpression,
     TLiteral, TAssignmentExpression, TConditionalExpression}

\* The path holds an expression of a kind no earlier rule decides.
Undecided(p) ==
    /\ HoldsNode(p) /\ Check(heap, paths[p].value, TExpression)
    /\ TypeAt(p) \notin DecidedKinds

\* The node of path p is the callee of a new expression.
IsNewCallee(p) ==
    /\ Encloser(p) # Null
    /\ paths[p].parentPath = Encloser(p)
    /\ TypeAt(Encloser(p)) = TNewExpression
    /\ paths[p].name = KeyCallee
    /\ GetProp(heap, paths[Encloser(p)].value, KeyCallee) = paths[p].value

\* The records and lists within the values vs, at any depth.
Within(vs) ==
    vs \cup UNION {{heap[v].props[k] : k \in DOMAIN heap[v].props} \cap DOMAIN heap
                        : v \in vs}

RECURSIVE Closure(_)
Closure(vs) == IF Within(vs) = vs THEN vs ELSE Closure(Within(vs))

HoldsCall(v) == \E w \in Closure({v}) : GetProp(heap, w, KeyType) = TCallExpression

\* C22: for an expression that is the callee of a new expression and of a
\* kind no earlier rule decides, needsParens returns true if and only if the
\* callee is a call expression or has one within its fields and list
\* elements at any depth, whatever assumeExpressionContext is.
C22_NewCallee ==
    (last.op = "needsParens" /\ Undecided(last.path) /\ IsNewCallee(last.path)) =>
        /\ ~last.err
        /\ last.ret = <<Bool(HoldsCall(paths[last.path].value))>>

\* needsParens(true) was asked of the callee of a new expression that is a
\* function whose body calls, two lists and two nodes below it, and answered
\* true.
C22_Witness ==
    /\ last.op = "needsParens" /\ last.args = <<True>>
    /\ Undecided(last.path) /\ IsNewCallee(last.path)
    /\ TypeAt(last.path) = TFunctionExpression
    /\ last.ret = <<True>>

\* The node of path p is the first element of the list the enclosing node
\* has as its field key.
IsFirstOf(p, key) ==
    GetProp(heap, GetProp(heap, paths[Encloser(p)].value, key), 0) = paths[p].value

\* The node of path p is the field key of its enclosing node.
IsField(p, key) == GetProp(heap, paths[Encloser(p)].value, key) = paths[p].value

\* The node of path p opens a statement: it is the first element of the body
\* of a block statement or the expression of an expression statement.
OpensStatement(p) ==
    \/ TypeAt(Encloser(p)) = TBlockStatement /\ IsFirstOf(p, KeyBody)
    \/ TypeAt(Encloser(p)) = TExpressionStatement /\ IsField(p, KeyExpression)

\* The node of path p is in a leading position that continues the walk.
ContinuesLeading(p) ==
    \/ TypeAt(Encloser(p)) = TSequenceExpression /\ IsFirstOf(p, KeyExpressions)
    \/ TypeAt(Encloser(p)) = TCallExpression /\ IsField(p, KeyCallee)
    \/ TypeAt(Encloser(p)) = TMemberExpression /\ IsField(p, KeyObject)
    \/ TypeAt(Encloser(p)) = TConditionalExpression /\ IsField(p, KeyTest)
    \/ TypeAt(Encloser(p)) \in BinaryKinds /\ IsField(p, KeyLeft)
    \/ /\ TypeAt(Encloser(p)) = TUnaryExpression
       /\ GetProp(heap, paths[Encloser(p)].value, KeyPrefix) # True
       /\ IsField(p, KeyArgument)

\* The walk upward from the node of path p, from enclosing node to enclosing
\* node.
RECURSIVE Leading(_)
Leading(p) ==
    IF Encloser(p) = Null THEN TRUE
    ELSE IF OpensStatement(p) THEN TRUE
    ELSE IF ContinuesLeading(p) THEN Leading(Encloser(p))
    ELSE FALSE

\* C23: firstInStatement() returns true for a cursor of a node exactly when,
\* walking upward from enclosing node to enclosing node, every step is in a
\* continuing leading position (first element of a sequence expression,
\* callee of a call, object of a member access, test of a conditional, left
\* operand of a binary or logical expression, operand of a non-prefix unary
\* expression) until a step is the first element of the body of a block
\* statement or the expression of an expression statement, or the top is
\* reached; any other position on the way gives false.
C23_LeadingWalk ==
    (last.op = "firstInStatement" /\ HoldsNode(last.path)) =>
        /\ ~last.err
        /\ last.ret = <<Bool(Leading(last.path))>>

\* needsParens was asked of an expression of a kind no rule of the switch
\* decides, which is not the callee of a new expression.
FallbackCall ==
    last.op = "needsParens" /\ Undecided(last.path) /\ ~IsNewCallee(last.path)

CannotOpenStatement(p) == TypeAt(p) \in {TFunctionExpression, TObjectExpression}

\* What firstInStatement() returns for the cursor.
FirstInStatementOf(p) == firstInStatement(NCur, p).ret

\* The answers of the fallback rule.
FallbackAnswer ==
    /\ ~last.err
    /\ (CannotOpenStatement(last.path) /\ last.args = <<False>>)
          => last.ret = FirstInStatementOf(last.path)
    /\ (CannotOpenStatement(last.path) /\ last.args = <<True>>) => last.ret = <<False>>
    /\ ~CannotOpenStatement(last.path) => last.ret = <<False>>

\* C27 as stated: for a function expression or object expression that is not
\* the callee of a new expression, needsParens() returns true if and only if
\* firstInStatement() is true for the cursor and needsParens(true) returns
\* false; for every other kind no earlier rule decides needsParens returns
\* false with either argument.
C27_Fallback == FallbackCall => FallbackAnswer

\* C27 amended: the same for a cursor that has an enclosing node; the cursor
\* of a function or object expression with no enclosing node gets false from
\* needsParens() though firstInStatement() is true for it.
C27_FallbackEnclosed ==
    /\ (FallbackCall /\ Encloser(last.path) # Null) => FallbackAnswer
    /\ (FallbackCall /\ Encloser(last.path) = Null) => last.ret = <<False>>

\* needsParens() was asked of a function expression that is the callee of a
\* call that is the expression of a statement, and answered true.
C27_Witness ==
    /\ FallbackCall /\ last.args = <<False>>
    /\ TypeAt(last.path) = TFunctionExpression
    /\ Encloser(last.path) # Null
    /\ TypeAt(Encloser(last.path)) = TCallExpression
    /\ paths[last.path].name = KeyCallee
    /\ last.ret = <<True>>

\* ------------------------------------------------------------------- prune
\* The path and all above it are in the tree: the slot each is named for
\* holds its value.
InTree(p) ==
    \A i \in DOMAIN Chain(p) :
        /\ paths[Chain(p)[i]].value # Undef
        /\ paths[Chain(p)[i]].parentPath # Null =>
              GetProp(heap, paths[paths[Chain(p)[i]].parentPath].value,
                      paths[Chain(p)[i]].name) = paths[Chain(p)[i]].value

\* The value that has the slot of path p.
Holder(p) == paths[paths[p].parentPath].value

\* Removing the node of path p leaves its enclosing node to be pruned: a
\* variable declaration whose only declarator it is, an expression statement
\* whose expression it is.
Cascades(p) ==
    /\ Encloser(p) # Null
    /\ \/ /\ TypeAt(Encloser(p)) = TVariableDeclaration
          /\ Holder(p) = GetProp(heap, paths[Encloser(p)].value, KeyDeclarations)
          /\ heap[Holder(p)].length = 1
       \/ /\ TypeAt(Encloser(p)) = TExpressionStatement
          /\ paths[p].parentPath = Encloser(p)
          /\ paths[p].name = KeyExpression

\* The paths pruned when path p is, p first.
RECURSIVE PrunedChain(_)
PrunedChain(p) ==
    IF Cascades(p) THEN <<p>> \o PrunedChain(Encloser(p)) ELSE <<p>>

TopPruned(p) == PrunedChain(p)[Len(PrunedChain(p))]

\* The records and lists within the values vs in heap h, at any depth.
RECURSIVE ReachIn(_, _)
ReachIn(h, vs) ==
    LET more == vs \cup UNION {{h[v].props[k] : k \in DOMAIN h[v].props} \cap DOMAIN h
                                 : v \in vs}
    IN  IF more = vs THEN vs ELSE ReachIn(h, more)

\* The list xs without its element at index i.
ListWithout(xs, i) ==
    Obj("array", xs.length - 1,
        [j \in 0..(xs.length - 2) |-> IF j < i THEN xs.props[j] ELSE xs.props[j + 1]])

\* The value that has the slot of path p, with the slot removed.
WithoutSlot(p) ==
    IF IsArrayObj(heap, Holder(p)) THEN ListWithout(heap[Holder(p)], paths[p].name)
    ELSE [heap[Holder(p)] EXCEPT
             !.props = Restrict(@, DOMAIN @ \ {paths[p].name})]

\* The topmost node the pruning of path p removes has an enclosing node.
PruneCase(p) == InTree(p) /\ Encloser(TopPruned(p)) # Null

\* What prune() of path p comes to: the cursor of the enclosing node of the
\* topmost node removed is returned and is in the tree, the values pruned are
\* not; unless an if statement is what remains, the slot of the topmost is
\* removed and nothing else changes but the values that held the slots
\* pruned below it.
PruneDone(p) ==
    /\ ~last'.err
    /\ last'.ret = <<Encloser(TopPruned(p))>>
    /\ \A i \in DOMAIN PrunedChain(p) :
          paths[PrunedChain(p)[i]].value \notin ReachIn(heap', {paths[1].value})
    /\ paths'[last'.ret[1]].value \in ReachIn(heap', {paths[1].value})
    /\ TypeAt(Encloser(TopPruned(p))) # TIfStatement =>
          /\ heap'[Holder(TopPruned(p))] = WithoutSlot(TopPruned(p))
          /\ \A o \in DOMAIN heap :
                (\A i \in DOMAIN PrunedChain(p) : o # Holder(PrunedChain(p)[i]))
                => heap'[o] = heap[o]

BranchPruned(p, key) ==
    /\ last'.op = "prune"
    /\ HoldsNode(p) /\ InTree(p)
    /\ Encloser(p) # Null
    /\ paths[p].parentPath = Encloser(p)
    /\ TypeAt(Encloser(p)) = TIfStatement
    /\ paths[p].name = key
    /\ paths[Encloser(p)].parentPath # Null

\* The field of the if statement that encloses path p, before the call and
\* after it.
IfField(p, key) == getFieldValue(heap, paths[Encloser(p)].value, key)

IfFieldAfter(p, key) == getFieldValue(heap', paths[Encloser(p)].value, key)

\* The value v is the negation of the former test t: the operand of t when t
\* is a negation, a new expression !t otherwise.
NegationOf(v, t) ==
    IF Check(heap, t, TUnaryExpression) /\ GetProp(heap, t, KeyOperator) = Op("!")
    THEN v = GetProp(heap, t, KeyArgument)
    ELSE /\ v \notin DOMAIN heap
         /\ heap'[v] = unaryExpression(Op("!"), t, True)

\* C25: pruning the consequent of an if statement that has an alternate
\* leaves an if statement whose test is the negation of the former test (the
\* operand of the former test when that was a negation), whose consequent is
\* the former alternate and which has no alternate; pruning the only branch
\* of an if statement replaces the statement in its slot by an expression
\* statement of its test; pruning the alternate while there is a consequent
\* changes nothing else.
C25_IfCleanup ==
    [][/\ (BranchPruned(last'.path, KeyConsequent)
             /\ ~Falsy(IfField(last'.path, KeyAlternate))) =>
            /\ ~last'.err
            /\ last'.ret = <<Encloser(last'.path)>>
            /\ paths'[Encloser(last'.path)].value = paths[Encloser(last'.path)].value
            /\ heap'[Holder(Encloser(last'.path))] = heap[Holder(Encloser(last'.path))]
            /\ NegationOf(IfFieldAfter(last'.path, KeyTest), IfField(last'.path, KeyTest))
            /\ IfFieldAfter(last'.path, KeyConsequent) = IfField(last'.path, KeyAlternate)
            /\ ~HasOwn(heap', paths[Encloser(last'.path)].value, KeyAlternate)
       /\ (BranchPruned(last'.path, KeyConsequent)
             /\ Falsy(IfField(last'.path, KeyAlternate))) =>
            /\ ~last'.err
            /\ last'.ret = <<Encloser(last'.path)>>
            /\ paths'[Encloser(last'.path)].value \notin DOMAIN heap
            /\ heap'[paths'[Encloser(last'.path)].value]
                 = expressionStatement(IfField(last'.path, KeyTest))
            /\ heap'[Holder(Encloser(last'.path))] =
                 [heap[Holder(Encloser(last'.path))] EXCEPT
                     !.props[paths[Encloser(last'.path)].name] =
                         paths'[Encloser(last'.path)].value]
       /\ (BranchPruned(last'.path, KeyAlternate)
             /\ ~Falsy(IfField(last'.path, KeyConsequent))) =>
            /\ ~last'.err
            /\ last'.ret = <<Encloser(last'.path)>>
            /\ heap' = [heap EXCEPT ![paths[Encloser(last'.path)].value].props =
                                       Restrict(@, DOMAIN @ \ {KeyAlternate})]
      ]_vars

\* The consequent of if (!t) s else a was pruned: the statement is there with
\* the test t, the consequent a and no alternate.
C25_Witness ==
    /\ last.op = "prune" /\ ~last.err /\ nmut = 1
    /\ paths[last.path].name = KeyConsequent
    /\ last.ret = <<paths[last.path].parentPath>>
    /\ TypeAt(last.ret[1]) = TIfStatement
    /\ TypeOfNode(heap, GetProp(heap, paths[last.ret[1]].value, KeyTest)) = TIdentifier
    /\ TypeOfNode(heap, GetProp(heap, paths[last.ret[1]].value, KeyConsequent))
          = TExpressionStatement
    /\ ~HasOwn(heap, paths[last.ret[1]].value, KeyAlternate)

\* ---------------------------------------------------------------- handlers
\* Every abort of the visit was caught and its request cancelled, by the
\* handler that called it, and there was one.
AbortsCancelled ==
    /\ \E i \in LogIds : IsEvent(i, "abort")
    /\ \A i \in LogIds :
          IsEvent(i, "abort") =>
              /\ log[i][2] = 1
              /\ IsEvent(i + 1, "caught") /\ IsEvent(i + 2, "cancel")

\* An invocation of a handler ended by an exception.
Raised(j) == IsEvent(j, "invoked") /\ log[j][4] # "return"

\* C26: when a handler catches the abort request and calls its cancel(), the
\* request is withdrawn: if the traversal goes on without an exception visit
\* returns the value of the root, an exception raised later leaves visit as
\* that exception, as in a visit without abort, and the request thrown again
\* after cancel() leaves visit as an exception and is not turned into a
\* return value.
C26_CancelWithdraws ==
    (last.op = "visit" /\ AbortsCancelled) =>
        /\ ~visitors[1].abortRequested
        /\ ~visitors[1].visiting
        /\ last.err <=> \E j \in LogIds : Raised(j)
        /\ ~last.err => last.ret = <<paths[last.path].value>>
        /\ \A j \in LogIds : Raised(j) => last.index = log[j][4]
        /\ (\E i \in LogIds : IsEvent(i, "throw")) => (last.err /\ last.index = "error")
        /\ (\E i \in LogIds : IsEvent(i, "rethrown")) => (last.err /\ last.index = "abort")

\* A handler cancelled its abort request and returned, and a handler invoked
\* later threw an error, which left visit.
C26_Witness ==
    /\ last.op = "visit" /\ AbortsCancelled
    /\ \E i, j, k \in LogIds :
          /\ IsEvent(i, "cancel")
          /\ j > i /\ IsEvent(j, "returned")
          /\ k > j /\ IsEvent(k, "handler")
          /\ IsEvent(k + 1, "throw")
    /\ last.err /\ last.index = "error"

\* The elements of the list of the tree when a visit starts.
Elements == {heap[L2].props[i] : i \in DOMAIN heap[L2].props}

\* No node is twice in the list when the visit starts.
Distinct == Cardinality(Elements) = heap[L2].length

\* The visit that ends recorded at i the turn of a cursor of the list: the
\* call of visitWithoutReset on a child path of the path of the list.
Turn(i) ==
    /\ i \in DOMAIN log' /\ log'[i][1] = "node" /\ log'[i][2] = 1
    /\ paths'[log'[i][3]].parentPath # Null
    /\ paths'[paths'[log'[i][3]].parentPath].value = L2

\* The turn recorded at i dispatched the value of the cursor to a handler.
Dispatched(i) == i + 1 \in DOMAIN log' /\ log'[i + 1][1] = "handler"

\* The visit went through the whole list: no exception and no abort.
WentThrough ==
    /\ ~last'.err
    /\ \A i \in DOMAIN log' : log'[i][1] # "abort"

\* C28: in the traversal of a list of distinct nodes by handlers that change
\* the list,
\* every element there when the pass started and in the list when its turn
\* comes is dispatched to its handler exactly once, also when earlier
\* elements removed themselves and shifted it; an element removed through
\* replace() or prune() before its turn is not dispatched; an element
\* inserted during the pass is not dispatched in the pass.
C28_ListTraversal ==
    [][(last'.op = "visit" /\ Distinct) =>
        /\ \A i \in DOMAIN log' :
              (Turn(i) /\ log'[i][5] # Undef /\ log'[i][6]) => Dispatched(i)
        /\ \A i, j \in DOMAIN log' :
              (Turn(i) /\ Turn(j) /\ i # j /\ log'[i][5] # Undef)
                 => log'[i][5] # log'[j][5]
        /\ WentThrough => Cardinality({i \in DOMAIN log' : Turn(i)}) = Cardinality(Elements)
        /\ \A i \in DOMAIN log' : (Turn(i) /\ Dispatched(i)) => log'[i][6]
        /\ \A i \in DOMAIN log' : Turn(i) => log'[i][5] \in Elements \cup {Undef}
      ]_vars

\* The invocation of a handler recorded at i is running at k: its context has
\* not been released since.
Running(i, k) ==
    /\ i \in DOMAIN log /\ i <= k /\ log[i][1] = "handler"
    /\ \A j \in (i + 1)..k :
          ~(log[j][1] = "released" /\ log[j][3] = log[i][5])

\* The contexts of the pool recorded at k.
Pooled(k) == {log[k][Len(log[k])][1][i] : i \in DOMAIN log[k][Len(log[k])][1]}

\* Every context made is in the pool of its visitor, with no current path.
AllPooled ==
    \A c \in DOMAIN contexts :
        /\ \E i \in DOMAIN visitors[contexts[c].visitor].reusableContextStack :
              visitors[contexts[c].visitor].reusableContextStack[i] = c
        /\ contexts[c].currentPath = Null

\* C29: at the points of a traversal where a handler starts or a context is
\* released, no context is in a pool and bound to a running handler, no two
\* running invocations share a context and every pooled context has a null
\* current path; when the visit has ended, by return, abort or exception,
\* every context made is in the pool of its visitor.
C29_ContextPool ==
    /\ \A k \in DOMAIN log : log[k][1] \in {"handler", "released"} =>
          /\ \A i \in 1..k : Running(i, k) => log[i][5] \notin Pooled(k)
          /\ \A i, j \in 1..k :
                (Running(i, k) /\ Running(j, k) /\ i # j) => log[i][5] # log[j][5]
          /\ log[k][Len(log[k])][2] \subseteq {Null}
    /\ AllPooled

\* A visit ended by an exception, in which two handlers ran at a time on two
\* contexts and a handler started while the pool held a context.
C29_Witness ==
    /\ last.op = "visit" /\ last.err
    /\ \E k \in DOMAIN log : \E i, j \in 1..k :
          i < j /\ Running(i, k) /\ Running(j, k)
    /\ \E k \in DOMAIN log : log[k][1] = "handler" /\ Pooled(k) # {}
    /\ Len(contexts) >= 2 /\ AllPooled

\* The nested traversal that the log records from i to j: a handler called
\* traverse or visit with a methods object at i and the call ended at j.
Nested(i, j) ==
    /\ i \in DOMAIN log /\ j \in DOMAIN log /\ i < j
    /\ log[i][1] = "nested" /\ log[j][1] = "nestedEnd" /\ log[j][3] = log[i][3]

\* The handler invoked at k inside a nested traversal is the one of the
\* methods object, whose only statement is does.
NestedHandler(i, j, k, does) ==
    /\ Nested(i, j) /\ k \in (i + 1)..(j - 1) /\ log[k][1] = "handler"
    /\ log[k][2] = log[i][3]
    /\ visitors[log[k][2]].methods[log[k][3]].steps = <<does>>

\* C30: a traversal that a handler starts by traverse(path, methods) or
\* visit(path, methods) runs on a visitor of its own: between its start and
\* its end only that visitor dispatches and invokes handlers, on contexts of
\* its own pool; what its handlers report or abort is set in its flags, and
\* the flags of the outer visitor are at the end what they were at the start.
C30_NestedVisitor ==
    \A i, j \in DOMAIN log : Nested(i, j) =>
        /\ log[i][3] # contexts[log[i][2]].visitor
        /\ \A k \in (i + 1)..(j - 1) :
              /\ log[k][1] \in {"node", "handler", "children", "released", "abort"}
                    => log[k][2] = log[i][3]
              /\ log[k][1] = "handler" => contexts[log[k][5]].visitor = log[i][3]
              /\ NestedHandler(i, j, k, "report") => visitors[log[i][3]].changeReported
              /\ NestedHandler(i, j, k, "abort") => visitors[log[i][3]].abortRequested
        /\ log[j][5] = log[i][4]

\* A visit in which a nested handler reported a change and a nested handler
\* aborted while the outer visitor had neither flag set, and which ended by
\* the exception of the abort.
C30_Witness ==
    /\ last.op = "visit" /\ last.err
    /\ \E i, j, k \in DOMAIN log :
          /\ NestedHandler(i, j, k, "report")
          /\ visitors[log[i][3]].changeReported
          /\ log[j][5] = <<TRUE, FALSE, FALSE>>
    /\ \E i, j, k \in DOMAIN log :
          /\ NestedHandler(i, j, k, "abort")
          /\ visitors[log[i][3]].abortRequested
          /\ log[j][4] = "abort" /\ log[j][5] = <<TRUE, FALSE, FALSE>>

\* The handler invoked at k was dispatched there: visitWithoutReset was
\* called for its path, on its visitor, just before.
DispatchedTo(k) ==
    /\ IsEvent(k - 1, "node")
    /\ log[k - 1][2] = log[k][2] /\ log[k - 1][3] = log[k][4]

\* The value returned by the handler whose return is recorded at i is the
\* value and in the slot of its path when the invocation ends, and no handler
\* is invoked on that path from the return to the end.
InstalledUnvisited(i) ==
    /\ log[EndOf(i)][3] = log[i][3]
    /\ log[EndOf(i)][5] = log[i][5]
    /\ log[EndOf(i)][6] = log[i][5]
    /\ \A k \in LogIds :
          (k > i /\ k < EndOf(i) /\ IsEvent(k, "handler"))
             => (log[k][4] # log[i][3] /\ log[k][6] # log[i][5])

\* C31 as claimed: every invocation of a handler is the one dispatch of a
\* visit of its cursor; when a handler returns a replacement node, the node is
\* installed, its children are traversed and no handler is invoked on it.
C31_OneHandlerTraversed ==
    /\ \A k \in LogIds : IsEvent(k, "handler") => DispatchedTo(k)
    /\ \A i \in LogIds : Replaces(i) =>
          /\ InstalledUnvisited(i)
          /\ Traversals(log[i][3], i, EndOf(i)) # {}

\* C31: every invocation of a handler is the one dispatch of a visit of its
\* cursor; when a handler returns a replacement node for a cursor with a
\* parent, the node is installed and no handler is invoked on it, whatever
\* handlers are declared; its children are traversed if the handler had called
\* none of traverse, visit and abort of its context.
C31_OneHandler ==
    /\ \A k \in LogIds : IsEvent(k, "handler") => DispatchedTo(k)
    /\ \A i \in LogIds : Replaces(i) =>
          /\ InstalledUnvisited(i)
          /\ log[i][6] => Traversals(log[i][3], i, EndOf(i)) # {}

\* The handler declared for identifiers returned the identifier R6 for an
\* identifier of the tree without a call of its context; R6 was installed
\* and its children were traversed.
C31_Witness ==
    \E i \in LogIds :
        /\ Replaces(i) /\ log[i][6]
        /\ TIdentifier \in DOMAIN visitors[1].methods
        /\ log[i][4] = visitors[1].methodNameTable[TIdentifier]
        /\ IsEvent(i + 1, "children") /\ log[i + 1][3] = log[i][3]
        /\ log[EndOf(i)][6] = R6
        /\ InstalledUnvisited(i)

\* The path p.get(k) returns in the state, with the paths of the state the
\* call leaves: the fields of the path returned.
GetNow(p, k) ==
    getChildPath(Cur, p, k).paths[getChildPath(Cur, p, k).ret[1]]

\* C32: after any calls of get, each, push, pop, shift, unshift, insertAt,
\* insertBefore, insertAfter and replace on the paths got from one root, for
\* every path p and every key k of p.value, p.get(k) returns a path whose
\* parentPath is p, whose name is k and whose value is p.value[k].
C32_GetConsistent ==
    \A p \in PathIds :
        IsObj(paths[p].value) =>
            \A k \in DOMAIN heap[paths[p].value].props :
                /\ ~getChildPath(Cur, p, k).err
                /\ GetNow(p, k).parentPath = p
                /\ GetNow(p, k).name = k
                /\ GetNow(p, k).value = heap[paths[p].value].props[k]

\* The call before was p.replace() with no arguments, which removed the path
\* p from its array.
RemovedFromArray(p) ==
    /\ last.op = "replace" /\ last.path = p /\ last.args = <<>> /\ ~last.err
    /\ paths[p].parentPath # Null
    /\ IsArrayObj(heap, paths[paths[p].parentPath].value)

\* C33: p.replace(x) on a path p that p.replace() has removed from an array
\* raises an error and leaves the array as it was before the call, whatever
\* the index p had.
C33_StaleReplace ==
    [][\A p \in PathIds :
          (RemovedFromArray(p) /\ last'.op = "replace" /\ last'.path = p
              /\ Len(last'.args) = 1)
             => (last'.err /\ heap' = heap)]_vars

\* The array object o2 holds the elements of the array object o moved by d
\* places from index from on, holes included, up to its length len, and the
\* keys of o that are no indices of o as they were.
MovedBy(o, o2, d, from, len) ==
    /\ o2.length = len
    /\ \A i \in from..(len - 1) :
          /\ (i \in DOMAIN o2.props) = ((i - d) \in DOMAIN o.props)
          /\ (i \in DOMAIN o2.props) => o2.props[i] = o.props[i - d]
    /\ {k \in DOMAIN o2.props : k \notin 0..(len - 1)}
          = {k \in DOMAIN o.props : k \notin 0..(o.length - 1)}
    /\ \A k \in DOMAIN o.props : k \notin 0..(o.length - 1) => o2.props[k] = o.props[k]

\* The call that ended was a.shift() or a.unshift(...) on the array object v,
\* and returned.
ArrayCall(op, v) ==
    /\ last'.op = op /\ ~last'.err
    /\ paths[last'.path].value = v
    /\ \A w \in DOMAIN heap : w # v => heap'[w] = heap[w]

\* C34: a.shift() on an array of length L >= 1 returns the former first
\* element and leaves the former elements 1..L-1 at 0..L-2 and nothing else
\* added or changed; a.unshift(v1..vn) returns the new length and leaves
\* v1..vn followed by the former elements, and nothing else added or changed.
C34_ShiftUnshift ==
    [][\A v \in DOMAIN heap :
          /\ (ArrayCall("shift", v) /\ heap[v].length >= 1) =>
                /\ last'.ret = <<GetProp(heap, v, 0)>>
                /\ MovedBy(heap[v], heap'[v], -1, 0, heap[v].length - 1)
          /\ ArrayCall("unshift", v) =>
                /\ last'.ret = <<heap[v].length + Len(last'.args)>>
                /\ \A i \in 1..Len(last'.args) :
                      GetProp(heap', v, i - 1) = last'.args[i]
                         /\ HasOwn(heap', v, i - 1)
                /\ MovedBy(heap[v], heap'[v], Len(last'.args), Len(last'.args),
                           heap[v].length + Len(last'.args))]_vars

\* reportChanged() was called on visitor v, on the visitor or through one of
\* its contexts, during the visit that ended.
ReportedIn(v) == \E i \in LogIds : log[i] = <<"report", v>>

\* C35: after a call of visit has ended, wasChangeReported() is true exactly
\* when reportChanged() was called on the visitor during that visit.
C35_ChangeReported ==
    last.op = "visit" => (wasChangeReported(VCur, 1) <=> ReportedIn(1))

====
